---- MODULE Spec2Model ----
(***************************************************************************)
(* A model of http-bucket's storage pipeline (assets/src/bucket.py,        *)
(* unpackage.py, calc.py, util.py).                                        *)
(*                                                                         *)
(* Strings are sequences of one-character strings, so that the regular     *)
(* expression of _Store, str.lower, str.startswith and the os.path         *)
(* functions are computed character by character, as Python computes them. *)
(*                                                                         *)
(* The module holds several specifications over one set of variables; a    *)
(* specification leaves the variables of the others at their idle values.  *)
(*   SpecRoute    _Store.get_route / get_destination on arbitrary keys      *)
(*   SpecExtract  unpackage.tar / unpackage.zip on arbitrary archives        *)
(*   Spec         File and CompFile stages running concurrently over one     *)
(*                BlobStore, staging area and checksum cache                 *)
(*   SpecRerun    process() called a second time on such a stage             *)
(*   SpecUpload   Upload.process chaining the stages, get_api_response       *)
(*   SpecFingerprint  calc.file_checksum on files written between calls      *)
(*   SpecCacheRace    the statements of calc.file_checksum in several threads *)
(*   SpecStaging  the tokens and staging directories of the stages           *)
(*   SpecArchive  Archive stages over the BlobStore and the DirStore          *)
(*   SpecReplica  Replicate stages over the ReplicaStore                      *)
(*   SpecWalk     calc.file_checksums_in_directory on arbitrary trees        *)
(*   SpecUnpack   File, CompFile and Archive stages side by side              *)
(*   SpecSession  the stages of uploads processed one after the other         *)
(*   SpecFilename Upload(filename) / File(filename) on arbitrary filenames    *)
(***************************************************************************)
EXTENDS Integers, Sequences, FiniteSets, TLC

VARIABLES
    checksum,   \* SpecRoute: the key handed to get_route, [isStr, chars]
    route,      \* SpecRoute: what get_route / get_destination gave for it
    cwd,        \* SpecExtract: the working directory of the process
    dst,        \* SpecExtract: the destination directory handed to tar / zip
    archive,    \* SpecExtract: the archive, [kind, members]
    xpc,        \* SpecExtract: where the call of tar / zip stands
    xidx,       \* SpecExtract: the member the running loop is at
    validated,  \* SpecExtract: history, the members check_members_* let pass
    written,    \* SpecExtract: the paths extractall has created on disk
    clock,      \* Spec: the file system's timestamp clock
    ino,        \* Spec: the inode table, inode -> [nlink, content, mtime]
    cache,      \* Spec: calc.file_checksum_cache[hashtype], <<inode, mtime>> -> checksum
    blob,       \* Spec: the files of the BlobStore, path -> inode (0: none)
    blobdirs,   \* Spec: the directories created below BLOB_DIR
    stage,      \* Spec: the stage objects, slot -> record
    up,         \* SpecUpload: the Upload object and the stages it holds
    resp,       \* SpecUpload: what the last get_api_response() gave
    calls,      \* SpecFingerprint: history, the last file_checksum call per file
    fcc,        \* SpecCacheRace: calc.file_checksum_cache as nested dicts
    worker,     \* SpecCacheRace: the threads inside calc.file_checksum
    sdir,       \* SpecStaging: the directories below STAGING_DIR, token -> content
    sobj,       \* SpecStaging: the stage objects, slot -> [uid, pc]
    afs,        \* SpecArchive: the directories and files outside the BlobStore
    astage,     \* SpecArchive: the Archive stage objects, slot -> record
    rfs,        \* SpecReplica: the directories of the ReplicaStore, path -> content
    rstage,     \* SpecReplica: the Replicate stage objects, slot -> record
    wtree,      \* SpecWalk: the entries below the directory that is fingerprinted
    wres,       \* SpecWalk: what file_checksums_in_directory gave for it
    fname,      \* SpecFilename: the filename handed to Upload / File
    fpath       \* SpecFilename: the file_path the File stage reserved for it

routeVars   == <<checksum, route>>
extractVars == <<cwd, dst, archive, xpc, xidx, validated, written>>
bucketVars  == <<clock, ino, cache, blob, blobdirs, stage>>
uploadVars  == <<up, resp>>
cacheVars   == <<calls, fcc, worker>>
stagingVars == <<sdir, sobj>>
archiveVars == <<afs, astage>>
replicaVars == <<rfs, rstage>>
walkVars    == <<wtree, wres>>
nameVars    == <<fname, fpath>>
laterVars   == <<archiveVars, replicaVars, walkVars, nameVars>>
otherVars   == <<uploadVars, cacheVars, stagingVars, laterVars>>
exceptUpload == <<routeVars, extractVars, bucketVars, cacheVars, stagingVars, laterVars>>
vars == <<routeVars, extractVars, bucketVars, otherVars>>

(***************************************************************************)
(* Strings                                                                 *)
(***************************************************************************)

\* str.startswith
StartsWith(s, prefix) ==
    /\ Len(prefix) <= Len(s)
    /\ \A i \in 1..Len(prefix) : s[i] = prefix[i]

\* str.endswith, for a one-character suffix
EndsWithChar(s, c) == Len(s) > 0 /\ s[Len(s)] = c

\* s[a:b] of Python, 0-based and half-open, clipped to the string
Slice(s, a, b) ==
    LET hi == IF b > Len(s) THEN Len(s) ELSE b
    IN  IF a >= hi THEN <<>> ELSE [i \in 1..(hi - a) |-> s[a + i]]

HexDigits == {"0", "1", "2", "3", "4", "5", "6", "7", "8", "9"}
HexLower  == {"a", "b", "c", "d", "e", "f"}
HexUpper  == {"A", "B", "C", "D", "E", "F"}

\* one character of str.lower()
LowerChar(c) ==
    CASE c = "A" -> "a" [] c = "B" -> "b" [] c = "C" -> "c"
      [] c = "D" -> "d" [] c = "E" -> "e" [] c = "F" -> "f"
      [] c = "G" -> "g" [] c = "Z" -> "z"
      [] OTHER -> c

\* str.lower()
Lower(s) == [i \in 1..Len(s) |-> LowerChar(s[i])]


(***************************************************************************)
(* os.path (posixpath), on strings as character sequences                  *)
(***************************************************************************)

\* s.split("/")
RECURSIVE SplitSlash(_)
SplitSlash(s) ==
    IF \A i \in 1..Len(s) : s[i] # "/"
    THEN <<s>>
    ELSE LET i == CHOOSE k \in 1..Len(s) :
                      s[k] = "/" /\ \A j \in 1..(k - 1) : s[j] # "/"
         IN  <<SubSeq(s, 1, i - 1)>> \o SplitSlash(SubSeq(s, i + 1, Len(s)))

\* "/".join(comps)
RECURSIVE JoinSlash(_)
JoinSlash(comps) ==
    IF comps = <<>> THEN <<>>
    ELSE IF Len(comps) = 1 THEN comps[1]
    ELSE comps[1] \o <<"/">> \o JoinSlash(Tail(comps))

\* os.path.isabs
isabs(p) == StartsWith(p, <<"/">>)

\* os.path.join(a, b): an absolute b discards a
join(a, b) ==
    IF isabs(b) THEN b
    ELSE IF a = <<>> \/ EndsWithChar(a, "/") THEN a \o b
    ELSE a \o <<"/">> \o b

\* os.path.join(a, *parts)
RECURSIVE joinAll(_, _)
joinAll(a, parts) ==
    IF parts = <<>> THEN a ELSE joinAll(join(a, Head(parts)), Tail(parts))

\* The loop of os.path.normpath over the components of the path
RECURSIVE normComps(_, _, _)
normComps(comps, acc, initial_slashes) ==
    IF comps = <<>> THEN acc
    ELSE LET comp == Head(comps)
             rest == Tail(comps)
         IN  IF comp = <<>> \/ comp = <<".">>
             THEN normComps(rest, acc, initial_slashes)
             ELSE IF \/ comp # <<".", ".">>
                     \/ (initial_slashes = 0 /\ acc = <<>>)
                     \/ (acc # <<>> /\ acc[Len(acc)] = <<".", ".">>)
             THEN normComps(rest, Append(acc, comp), initial_slashes)
             ELSE IF acc # <<>>
             THEN normComps(rest, SubSeq(acc, 1, Len(acc) - 1), initial_slashes)
             ELSE normComps(rest, acc, initial_slashes)

\* os.path.normpath: POSIX keeps exactly two leading slashes
normpath(p) ==
    IF p = <<>> THEN <<".">>
    ELSE LET initial_slashes ==
                 IF ~isabs(p) THEN 0
                 ELSE IF StartsWith(p, <<"/", "/">>) /\ ~StartsWith(p, <<"/", "/", "/">>)
                      THEN 2 ELSE 1
             body == JoinSlash(normComps(SplitSlash(p), <<>>, initial_slashes))
             out  == [i \in 1..initial_slashes |-> "/"] \o body
         IN  IF out = <<>> THEN <<".">> ELSE out

\* os.path.abspath, in a process whose working directory is wd
abspath(p, wd) == normpath(IF isabs(p) THEN p ELSE join(wd, p))

\* os.path.realpath of an absolute, normalised path on a tree without
\* symbolic links: the path itself, with one leading slash
realpath(p) == IF StartsWith(p, <<"/", "/">>) THEN Tail(p) ELSE p

\* os.path.dirname
dirname(p) ==
    LET slashes == {i \in 1..Len(p) : p[i] = "/"}
        i       == IF slashes = {} THEN 0
                   ELSE CHOOSE k \in slashes : \A j \in slashes : j <= k
        head    == SubSeq(p, 1, i)
        RECURSIVE rstrip(_)
        rstrip(h) == IF EndsWithChar(h, "/") THEN rstrip(SubSeq(h, 1, Len(h) - 1)) ELSE h
    IN  IF head # <<>> /\ (\E k \in 1..Len(head) : head[k] # "/")
        THEN rstrip(head) ELSE head

(***************************************************************************)
(* _Store: the route of a checksum (bucket.py)                             *)
(***************************************************************************)

\* {8,} of CHECKSUM_REGEX: "min 8 characters required"
MinChecksumLen == 8

\* The class [0-9a-f] of CHECKSUM_REGEX under re.IGNORECASE
RegexHexClass(c) == c \in HexDigits \cup HexLower \cup HexUpper

\* CHECKSUM_REGEX.search(s) for r"^[0-9a-f]{8,}": the pattern is anchored at
\* the start only, so it matches as soon as the first 8 characters are
\* hexadecimal, whatever follows them.
CHECKSUM_REGEX_search(s) ==
    /\ Len(s) >= MinChecksumLen
    /\ \A i \in 1..MinChecksumLen : RegexHexClass(s[i])

\* A buggy variant: the route keeps the key's letter case.
get_route_nolower(k) ==
    IF ~k.isStr \/ ~CHECKSUM_REGEX_search(k.chars)
    THEN [status |-> "TypeError", segs |-> <<>>]
    ELSE [status |-> "ok",
          segs |-> <<Slice(k.chars, 0, 2), Slice(k.chars, 2, 4), k.chars>>]

\* _Store.get_route(checksum).  k = [isStr, chars].  A key that is no str
\* makes CHECKSUM_REGEX.search raise TypeError while the list `checks` is
\* built; a str that the pattern does not match raises the TypeError of the
\* method itself.
get_route(k) ==
    IF ~k.isStr \/ ~CHECKSUM_REGEX_search(k.chars)
    THEN [status |-> "TypeError", segs |-> <<>>]
    ELSE LET c == Lower(k.chars)
         IN  [status |-> "ok",
              segs |-> <<Slice(c, 0, 2), Slice(c, 2, 4), c>>]

\* config.CONSTANT.BUCKET.BLOB_DIR with the default ARCHIVE_DIR /tmp/bucket,
\* shortened to /t/b to keep the strings small
BLOB_DIR == <<"/", "t", "/", "b">>

\* _Store.get_destination(checksum), for Blobstore
get_destination(k) ==
    LET r == get_route(k)
    IN  IF r.status # "ok" THEN [status |-> r.status, path |-> <<>>]
        ELSE [status |-> "ok", path |-> joinAll(BLOB_DIR, r.segs)]


(***************************************************************************)
(* SafeExtract (unpackage.py).  A member is [name, type, linkname] with    *)
(* type "file", "sym" (a symbolic link) or "lnk" (a hard link).  wd is the *)
(* working directory of the process, which abspath reads.                  *)
(***************************************************************************)

\* SafeExtract.resolved
resolved(path, wd) == realpath(abspath(path, wd))

\* SafeExtract.badpath: a test on the characters of the two strings
badpath(path, base, wd) == ~StartsWith(resolved(join(base, path), wd), base)

\* SafeExtract.badlink: the link target is tested against the directory of
\* the link itself, which is handed to badpath as its base
badlink(info, base, wd) ==
    LET tip == resolved(join(base, dirname(info.name)), wd)
    IN  badpath(info.linkname, tip, wd)

\* One iteration of the loop of SafeExtract.check_members_tar, whose base is
\* resolved("."): "ok", or the reason of the RuntimeError
check_member_tar(finfo, wd) ==
    LET base == resolved(<<".">>, wd)
    IN  IF badpath(finfo.name, base, wd) THEN "illegal path"
        ELSE IF finfo.type = "sym" /\ badlink(finfo, base, wd) THEN "symbolic link"
        ELSE IF finfo.type = "lnk" /\ badlink(finfo, base, wd) THEN "hard link"
        ELSE "ok"

\* One iteration of the loop of SafeExtract.check_members_zip
check_member_zip(finfo, wd) ==
    LET base == resolved(<<".">>, wd)
    IN  IF badpath(finfo.name, base, wd) THEN "illegal path" ELSE "ok"

check_member(a, i, wd) ==
    IF a.kind = "tar" THEN check_member_tar(a.members[i], wd)
    ELSE check_member_zip(a.members[i], wd)

\* A buggy variant of tar / zip: the verdict of the check is dropped and the
\* call goes on to the next member, and to extractall after the last one.
after_check_unchecked(a, i, verdict) ==
    IF i = Len(a.members) THEN "extract" ELSE "check"

\* Where tar / zip stands after member i was checked: the RuntimeError of
\* check_members_* leaves the function before extractall is reached.
after_check(a, i, verdict) ==
    IF verdict # "ok" THEN "rejected"
    ELSE IF i = Len(a.members) THEN "extract" ELSE "check"

\* Where TarFile.extractall(dst) creates a member: os.path.join(dst, name),
\* which the kernel resolves ('..' included).  tarfile applies no filter.
tar_target(d, name, wd) == resolved(join(d, name), wd)

\* Where ZipFile.extractall(dst) creates a member: the components '', '.'
\* and '..' of the name are dropped before it is joined to dst.
zip_target(d, name, wd) ==
    LET keep(c) == c \notin {<<>>, <<".">>, <<".", ".">>}
        arcname == JoinSlash(SelectSeq(SplitSlash(name), keep))
    IN  resolved(join(d, arcname), wd)

extract_target(a, i, d, wd) ==
    IF a.kind = "tar" THEN tar_target(d, a.members[i].name, wd)
    ELSE zip_target(d, a.members[i].name, wd)


(***************************************************************************)
(* The file system, the checksum cache and the stages (bucket.py, calc.py) *)
(***************************************************************************)

\* The stage objects constructed in a run
MaxStages == 4

\* The stages between construction and the return of process() at one time
\* (the workers of the HTTP layer)
MaxActive == 2

\* The stages constructed while another stage is still being processed
MaxOverlaps == 1

\* The last tick of the timestamp clock
MaxClock == 1

Stages == 1..MaxStages
Inodes == 1..MaxStages
Times  == 0..MaxClock

\* File contents: a plain text X and Zx, the gzip compression of X
Contents == {"X", "Zx"}

\* hashlib's hexdigest of a content (calc._file_checksum), shortened to 8
\* characters; distinct contents have distinct digests
Digest(c) ==
    IF c = "X" THEN <<"a", "1", "a", "1", "a", "1", "a", "1">>
    ELSE <<"3", "f", "3", "f", "3", "f", "3", "f">>

\* magic.from_file(path, mime=True)
Mime(c) == IF c = "Zx" THEN "application/gzip" ELSE "text/plain"

\* CompFile.SUPPORTED_MIMETYPES
CompFile_SUPPORTED_MIMETYPES ==
    {"application/gzip", "application/x-gzip", "application/x-xz", "application/x-bzip2"}

\* unpackage.gunzip: the decompressed content
gunzip(c) == "X"

\* Blobstore.get_destination of a checksum held by a stage (None: no str)
Destination(sum) == get_destination([isStr |-> sum # <<>>, chars |-> sum])

BlobPaths == {Destination(Digest(c)).path : c \in Contents}

FreeInode == [nlink |-> 0, content |-> "-", mtime |-> 0]

\* st_nlink of every BlobStore path (0: no file)
NLinks(b, tab) == [p \in BlobPaths |-> IF b[p] = 0 THEN 0 ELSE tab[b[p]].nlink]

\* The inode the file system gives a new file: a freed inode the cache still
\* holds an entry for, or an inode never seen (the lowest, all being alike)
AllocChoices ==
    LET free  == {i \in Inodes : ino[i].nlink = 0}
        known == {i \in free : \E t \in Times : cache[<<i, t>>] # <<>>}
        fresh == free \ known
    IN  known \cup {i \in fresh : \A j \in fresh : i <= j}

NoStage ==
    [ kind |-> "none",          \* File | CompFile
      pc |-> "ABSENT",          \* the step the stage is at
      dir |-> FALSE,            \* staging_path exists
      file |-> 0,               \* the inode at file_path (0: no file)
      stray |-> FALSE,          \* staging_path holds an entry besides file_path
      local_source |-> <<>>,    \* CompFile: the compressed file
      checksum |-> <<>>,        \* self.checksum (<<>>: None)
      mime |-> "none",          \* self.mime
      archive_path |-> <<>>,    \* self.archive_path (<<>>: None)
      error |-> "",             \* self.error / self.exception ("": None)
      result |-> "none",        \* what process() returned
      steps |-> <<>>,           \* history: the steps of _sequence entered
      failedAt |-> "none",      \* history: the step that raised
      content |-> "-",          \* history: the content staged at file_path
      sawBlob |-> FALSE,        \* history: check_exists was true in _store
      pred |-> {},              \* history: the stages finished at construction
      nl0 |-> <<>>,             \* history: NLinks at construction
      nl1 |-> <<>> ]            \* history: NLinks when process() returned

Active(st) == st.pc \notin {"ABSENT", "DONE", "FAILED"}
Finished(st) == st.pc \in {"DONE", "FAILED"}

\* The stages that were constructed while an earlier one was being processed
Overlapping == {t \in Stages : stage[t].pc # "ABSENT" /\ stage[t].pred # 1..(t - 1)}

\* A buggy variant of _sequence: _cleanup is not called
sequence_next_nocleanup(step) ==
    CASE step = "SETUP"   -> "UNPACK"
      [] step = "UNPACK"  -> "INSPECT"
      [] step = "INSPECT" -> "STORE"
      [] step = "STORE"   -> "DONE"
      [] step = "CLEANUP" -> "DONE"

\* _Stage._sequence: the step that follows a step that returned
sequence_next(step) ==
    CASE step = "SETUP"   -> "UNPACK"
      [] step = "UNPACK"  -> "INSPECT"
      [] step = "INSPECT" -> "STORE"
      [] step = "STORE"   -> "CLEANUP"
      [] step = "CLEANUP" -> "DONE"

\* A step of _sequence is entered
Enter(st, step) == [st EXCEPT !.steps = Append(@, step)]

\* A step of _sequence returned; after the last one process() returns True
\* (and closes the log)
Return(st, step, links) ==
    LET n == sequence_next(step)
    IN  [st EXCEPT !.pc = n,
                   !.result = IF n = "DONE" THEN "true" ELSE @,
                   !.nl1 = IF n = "DONE" THEN links ELSE @]

\* _Stage.process, the except clause: a step raised e.  The message and the
\* exception are kept, nothing is removed, process() returns False.
process_except(st, step, e, links) ==
    [st EXCEPT !.pc = "FAILED", !.error = e, !.result = "false",
               !.failedAt = step, !.nl1 = links]

\* A buggy variant of File._store: the staged file is linked into the
\* BlobStore entry's inode even when the blob is already there
store_existing_relink(tab, b) == [tab EXCEPT ![b].nlink = @ + 1]

\* File._store when check_exists is true: st_nlink is read and logged, the
\* inode table is left as it is
store_existing(tab, b) == tab

\* File._store when check_exists is false: os.link(file_path, bpath)
store_link(tab, f) == [tab EXCEPT ![f].nlink = @ + 1]

\* A buggy variant of os.rmdir: the directory is left on disk
rmdir_keep(exists) == exists

\* os.rmdir of an empty directory: the directory no longer exists
rmdir(exists) == FALSE

\* A buggy variant of File._cleanup: the staging directory is removed with
\* what it holds
rmdir_raises_never(st) == FALSE

\* os.rmdir(staging_path) raises OSError when the directory is not empty
rmdir_raises(st) == st.stray

\* os.remove(file_path): the inode is freed with its last link
remove_link(tab, f) ==
    IF tab[f].nlink = 1 THEN [tab EXCEPT ![f] = FreeInode]
    ELSE [tab EXCEPT ![f].nlink = @ - 1]

(***************************************************************************)
(* SpecUpload: the Upload action chains the stages of one upload           *)
(***************************************************************************)

\* The calls of Upload.process() made on one Upload object
MaxUploadCalls == 2

\* The mime types magic.from_file gives for the content of a stage
Mimes == {"application/gzip", "application/x-tar", "text/plain"}

\* A buggy variant: every mime type is handed to an extractor
Archive_SUPPORTED_MIMETYPES_any ==
    {"application/x-tar", "application/zip", "text/plain", "application/gzip"}

\* Archive.SUPPORTED_MIMETYPES
Archive_SUPPORTED_MIMETYPES == {"application/x-tar", "application/zip"}

\* The instance variables of a stage that Upload reads (TRUE: not None)
NoObj ==
    [ cls |-> "None", logClosed |-> FALSE, file_path |-> FALSE,
      archive_path |-> FALSE, checksum |-> FALSE, mime |-> "None",
      error |-> FALSE, ok |-> "none",
      src |-> <<>> ]            \* the path the constructor was given: <<object, attribute>>

\* File(filename) / CompFile(path) / Archive(path) / Replicate(...): only
\* File.__init__ sets file_path
NewObj(cls) == [NoObj EXCEPT !.cls = cls, !.file_path = cls \in {"File", "CompFile"}]

StepIndex(step) ==
    CASE step = "SETUP"   -> 1
      [] step = "UNPACK"  -> 2
      [] step = "INSPECT" -> 3
      [] step = "STORE"   -> 4
      [] step = "CLEANUP" -> 5

\* The steps of a class that do more than pass, and so can raise
CanFail(cls) ==
    CASE cls = "File"      -> {"INSPECT", "STORE", "CLEANUP"}
      [] cls = "CompFile"  -> {"UNPACK", "INSPECT", "STORE", "CLEANUP"}
      [] cls = "Archive"   -> {"SETUP", "UNPACK", "INSPECT", "STORE", "CLEANUP"}
      [] cls = "Replicate" -> {"INSPECT", "STORE", "CLEANUP"}

\* step has returned in a run of _sequence in which failAt raised
Passed(failAt, step) == failAt = "none" \/ StepIndex(step) < StepIndex(failAt)

\* _Stage.process of a stage in which failAt raised ("none": no step).
\* File._inspect sets checksum and mime, File._store sets archive_path;
\* Archive._setup sets checksum and archive_path and leaves mime None;
\* Replicate sets none of them.  The log is closed in every case.
stage_process(obj, failAt, mime) ==
    LET isFile == obj.cls \in {"File", "CompFile"} IN
    [obj EXCEPT
        !.logClosed = TRUE,
        !.checksum = (isFile /\ Passed(failAt, "INSPECT"))
                       \/ (obj.cls = "Archive" /\ Passed(failAt, "SETUP")),
        !.mime = IF isFile /\ Passed(failAt, "INSPECT") THEN mime ELSE "None",
        !.archive_path = (isFile /\ Passed(failAt, "STORE"))
                           \/ (obj.cls = "Archive" /\ Passed(failAt, "SETUP")),
        !.error = failAt # "none",
        !.ok = IF failAt = "none" THEN "true" ELSE "false"]

ObjNames == <<"file_obj", "compfile_obj", "archive_obj", "replicate_obj">>

NoUpload ==
    [ pc |-> "none",            \* where Upload.process stands
      headers |-> FALSE,        \* self.headers is not empty
      replicates |-> FALSE,     \* len(config.REPLICATES) > 0
      logClosed |-> FALSE,      \* self.log.close() has run
      result |-> "None",        \* self.result
      raised |-> "none",        \* the exception the last call was left by
      msg |-> "none",           \* what that exception says
      calls |-> 0,              \* history: the calls of process()
      lresult |-> "None",       \* the local variable result
      cur |-> "file_obj",       \* the local variable obj
      objs |-> [n \in {ObjNames[i] : i \in 1..4} |-> NoObj],
      trace |-> <<>>,           \* history: the stages constructed, [cls, ok]
      made0 |-> 0,              \* history: Len(trace) when the last call began
      runs |-> 0,               \* history: the calls of obj.process()
      runs0 |-> 0 ]             \* history: runs when the last call began

NoResp ==
    [ called |-> FALSE, raised |-> "none", code |-> 0, status |-> "none",
      checksum |-> [n \in {ObjNames[i] : i \in 1..3} |-> FALSE],
      path |-> [n \in {ObjNames[i] : i \in 1..3} |-> FALSE] ]

\* _Stage.get_path: get_uri() or get_relative_path(), both of which call
\* get_absolute_path().replace(...) on archive_path or file_path
get_path(obj) ==
    IF obj.archive_path \/ obj.file_path THEN "ok" ELSE "AttributeError"

\* A buggy variant of get_absolute_path: the staged path comes first
get_absolute_path_staged(obj) ==
    IF obj.file_path THEN "file_path"
    ELSE IF obj.archive_path THEN "archive_path" ELSE "None"

\* _Stage.get_absolute_path: self.archive_path or self.file_path
get_absolute_path(obj) ==
    IF obj.archive_path THEN "archive_path"
    ELSE IF obj.file_path THEN "file_path" ELSE "None"

\* A buggy variant of the gate of a chained stage: the result of the stage
\* before is not looked at
chain_gate_ungated(result, cond) == cond

\* Upload.process: "if result and <condition of the chained stage>"
chain_gate(result, cond) == result = "true" /\ cond

\* Upload.get_api_response
get_api_response(u) ==
    LET present == {n \in {ObjNames[i] : i \in 1..4} : u.objs[n].cls # "None"}
        openLog == (\E n \in present : ~u.objs[n].logClosed) \/ ~u.logClosed
        badPath == \E n \in present \ {"replicate_obj"} : get_path(u.objs[n]) # "ok"
        errors  == \E n \in present : u.objs[n].error
    IN  IF openLog THEN [NoResp EXCEPT !.called = TRUE, !.raised = "TypeError"]
        ELSE IF badPath THEN [NoResp EXCEPT !.called = TRUE, !.raised = "AttributeError"]
        ELSE [ called |-> TRUE, raised |-> "none",
               code |-> IF u.result = "True" THEN 200 ELSE 500,
               status |-> IF errors THEN "errors" ELSE "Success",
               checksum |-> [n \in {ObjNames[i] : i \in 1..3} |-> u.objs[n].checksum],
               path |-> [n \in {ObjNames[i] : i \in 1..3} |->
                            n \in present /\ get_path(u.objs[n]) = "ok"] ]

(***************************************************************************)
(* Idle values: what a specification leaves the others' variables at       *)
(***************************************************************************)

NoRoute == [status |-> "none", segs |-> <<>>, path |-> <<>>]

IdleRoute == checksum = [isStr |-> TRUE, chars |-> <<>>] /\ route = NoRoute

IdleExtract ==
    /\ cwd = <<"/">> /\ dst = <<"/">>
    /\ archive = [kind |-> "none", members |-> <<>>]
    /\ xpc = "idle" /\ xidx = 0 /\ validated = {} /\ written = {}

IdleBucket ==
    /\ clock = 0
    /\ ino = [i \in Inodes |-> FreeInode]
    /\ cache = [k \in Inodes \X Times |-> <<>>]
    /\ blob = [p \in BlobPaths |-> 0]
    /\ blobdirs = {}
    /\ stage = [s \in Stages |-> NoStage]

(***************************************************************************)
(* calc.file_checksum: its calls one after the other, and its statements   *)
(* run by concurrent threads                                               *)
(***************************************************************************)

\* The files fingerprinted in SpecFingerprint and SpecCacheRace
MaxFiles == 2

\* The threads inside calc.file_checksum at one time
MaxWorkers == 2

Files == 1..MaxFiles
Workers == 1..MaxWorkers

NoCall ==
    [ n |-> 0,                  \* calls made on the file, counted up to 2
      mtime |-> 0,              \* st_mtime at the last call
      content |-> "-",          \* the content at the last call
      value |-> <<>>,           \* what the last call returned
      read |-> FALSE,           \* the last call read the file (_file_checksum)
      prevMtime |-> 0,          \* st_mtime at the call before
      prevValue |-> <<>>,       \* what the call before returned
      clean |-> FALSE,          \* no write between the last two calls
      dirty |-> FALSE ]         \* the file was written since the last call

\* A buggy variant of file_checksum: the checksum is not kept
file_checksum_nostore(tab, f, ch) == ch

\* file_checksum_cache[hashtype][file_identifier], a dict once it is there
NoEntry == [has |-> FALSE, sum |-> [t \in Times |-> <<>>]]

\* file_checksum_cache without the key hashtype
NoCache == [has |-> FALSE, ent |-> [f \in Files |-> NoEntry]]

NoWorker ==
    [ pc |-> "idle", f |-> 0, modified |-> 0, digest |-> <<>>,
      result |-> <<>>, error |-> "none", reads |-> 0 ]

IdleCache ==
    /\ calls = [f \in Inodes |-> NoCall]
    /\ fcc = NoCache
    /\ worker = [w \in Workers |-> NoWorker]

IdleStaging == sdir = <<>> /\ sobj = <<>>

IdleUpload == up = NoUpload /\ resp = NoResp

IdleArchive == afs = <<>> /\ astage = <<>>

IdleReplica == rfs = <<>> /\ rstage = <<>>

IdleWalk == wtree = <<>> /\ wres = <<>>

IdleName == fname = <<>> /\ fpath = <<>>

IdleLater == IdleArchive /\ IdleReplica /\ IdleWalk /\ IdleName

IdleOther == IdleUpload /\ IdleCache /\ IdleStaging /\ IdleLater

(***************************************************************************)
(* SpecRoute: a caller builds a key and asks for its route                 *)
(***************************************************************************)

\* The characters the environment builds keys from: a lower-case and an
\* upper-case hexadecimal letter, a digit, and the path separator
KeyChars == {"a", "F", "3", "/"}

\* The longest key built
MaxKeyLen == 9

NotAStr == [isStr |-> FALSE, chars |-> <<>>]

InitRoute == IdleRoute /\ IdleExtract /\ IdleBucket /\ IdleOther

\* The caller extends the key by one character
AppendChar ==
    /\ checksum.isStr
    /\ Len(checksum.chars) < MaxKeyLen
    /\ \E c \in KeyChars :
           checksum' = [checksum EXCEPT !.chars = Append(@, c)]
    /\ route' = NoRoute
    /\ UNCHANGED <<extractVars, bucketVars, otherVars>>

\* The caller passes a value that is no str (None, bytes, a number)
PassNonStr ==
    /\ checksum.isStr /\ checksum.chars = <<>>
    /\ checksum' = NotAStr
    /\ route' = NoRoute
    /\ UNCHANGED <<extractVars, bucketVars, otherVars>>

\* Blobstore.get_destination(checksum), which calls get_route
CallGetDestination ==
    /\ route = NoRoute
    /\ LET r == get_route(checksum)
           d == get_destination(checksum)
       IN  route' = [status |-> r.status, segs |-> r.segs, path |-> d.path]
    /\ UNCHANGED <<checksum, extractVars, bucketVars, otherVars>>

NextRoute == AppendChar \/ PassNonStr \/ CallGetDestination

SpecRoute == InitRoute /\ [][NextRoute]_vars

(***************************************************************************)
(* SpecExtract: unpackage.tar(src, dst) / unpackage.zip(src, dst) on an    *)
(* archive the client built, in a process with working directory cwd.      *)
(* The destination is an existing, empty directory (a staging directory    *)
(* just created); the tree holds no symbolic link before the call.         *)
(***************************************************************************)

\* /: a daemon's usual working directory; /w: an application directory;
\* /t/s: a staging directory
Cwds == {<<"/">>, <<"/", "w">>, <<"/", "t", "/", "s">>}
Dsts == {<<"/", "t", "/", "s">>, <<"/", "w">>}

\* Member names: a, d/a, ../e, /e, ../sx
MemberNames ==
    { <<"a">>, <<"d", "/", "a">>, <<".", ".", "/", "e">>, <<"/", "e">>,
      <<".", ".", "/", "s", "x">> }

\* Link targets: a, ../a, /e
LinkNames == { <<"a">>, <<".", ".", "/", "a">>, <<"/", "e">> }

TarMembers ==
    [name : MemberNames, type : {"file"}, linkname : {<<>>}]
    \cup [name : MemberNames, type : {"sym", "lnk"}, linkname : LinkNames]

ZipMembers == [name : MemberNames, type : {"file"}, linkname : {<<>>}]

\* The most members an archive holds
MaxMembers == 2

InitExtract ==
    /\ IdleRoute /\ IdleBucket /\ IdleOther
    /\ cwd \in Cwds
    /\ dst \in Dsts
    /\ archive \in [kind : {"tar", "zip"}, members : {<<>>}]
    /\ xpc = "build" /\ xidx = 0 /\ validated = {} /\ written = {}

\* The client adds a member to the archive it uploads
AddMember ==
    /\ xpc = "build"
    /\ Len(archive.members) < MaxMembers
    /\ \E m \in (IF archive.kind = "tar" THEN TarMembers ELSE ZipMembers) :
           archive' = [archive EXCEPT !.members = Append(@, m)]
    /\ UNCHANGED <<cwd, dst, xpc, xidx, validated, written, routeVars, bucketVars, otherVars>>

\* tar / zip is called: the archive is opened, check_members_* starts
OpenArchive ==
    /\ xpc = "build"
    /\ xpc' = IF archive.members = <<>> THEN "closed" ELSE "check"
    /\ xidx' = 1
    /\ UNCHANGED <<cwd, dst, archive, validated, written, routeVars, bucketVars, otherVars>>

\* One iteration of the loop of check_members_tar / check_members_zip
CheckMember ==
    /\ xpc = "check"
    /\ LET verdict == check_member(archive, xidx, cwd)
       IN  /\ xpc' = after_check(archive, xidx, verdict)
           /\ validated' = IF verdict = "ok" THEN validated \cup {xidx} ELSE validated
    /\ xidx' = IF xidx = Len(archive.members) THEN 1 ELSE xidx + 1
    /\ UNCHANGED <<cwd, dst, archive, written, routeVars, bucketVars, otherVars>>

\* archive.extractall(dst) creates one member; archive.close() after the last
ExtractMember ==
    /\ xpc = "extract"
    /\ written' = written \cup {extract_target(archive, xidx, dst, cwd)}
    /\ xpc' = IF xidx = Len(archive.members) THEN "closed" ELSE "extract"
    /\ xidx' = xidx + 1
    /\ UNCHANGED <<cwd, dst, archive, validated, routeVars, bucketVars, otherVars>>

NextExtract == AddMember \/ OpenArchive \/ CheckMember \/ ExtractMember

SpecExtract == InitExtract /\ [][NextExtract]_vars

(***************************************************************************)
(* Spec: uploads are staged and processed by concurrent workers            *)
(***************************************************************************)

Init == IdleRoute /\ IdleExtract /\ IdleBucket /\ IdleOther

SetStage(s, st) == stage' = [stage EXCEPT ![s] = st]

\* File() / CompFile(local_file): the staging directory is made.  Slots are
\* taken in order; a CompFile is given a file of the BlobStore.
Construct(s) ==
    /\ stage[s].pc = "ABSENT"
    /\ \A t \in Stages : t < s => stage[t].pc # "ABSENT"
    /\ Cardinality({t \in Stages : Active(stage[t])}) < MaxActive
    /\ (\E t \in Stages : Active(stage[t])) => Cardinality(Overlapping) < MaxOverlaps
    /\ \E k \in {"File", "CompFile"} :
       \E src \in IF k = "File" THEN {<<>>} ELSE {p \in BlobPaths : blob[p] # 0} :
           SetStage(s, [NoStage EXCEPT
                            !.kind = k, !.pc = "NEW", !.dir = TRUE,
                            !.local_source = src,
                            !.pred = {t \in Stages : Finished(stage[t])},
                            !.nl0 = NLinks(blob, ino)])
    /\ UNCHANGED <<clock, ino, cache, blob, blobdirs, routeVars, extractVars, otherVars>>

\* The caller saves the uploaded content c at file_path
SaveUpload(s) ==
    /\ stage[s].kind = "File" /\ stage[s].pc = "NEW" /\ stage[s].file = 0
    /\ \E c \in Contents : \E i \in AllocChoices :
         /\ ino' = [ino EXCEPT ![i] = [nlink |-> 1, content |-> c, mtime |-> clock]]
         /\ SetStage(s, [stage[s] EXCEPT !.file = i, !.content = c])
    /\ UNCHANGED <<clock, cache, blob, blobdirs, routeVars, extractVars, otherVars>>

\* process() is called: _setup
Setup(s) ==
    /\ stage[s].pc = "NEW"
    /\ SetStage(s, Return(Enter(stage[s], "SETUP"), "SETUP", NLinks(blob, ino)))
    /\ UNCHANGED <<clock, ino, cache, blob, blobdirs, routeVars, extractVars, otherVars>>

\* _Stage._unpackage (File) / CompFile._unpackage
Unpackage(s) ==
    LET st == Enter(stage[s], "UNPACK")
        c  == ino[blob[st.local_source]].content
    IN  /\ stage[s].pc = "UNPACK"
        /\ IF st.kind = "File"
           THEN /\ SetStage(s, Return(st, "UNPACK", NLinks(blob, ino)))
                /\ ino' = ino
           ELSE IF Mime(c) \notin CompFile_SUPPORTED_MIMETYPES
           THEN /\ SetStage(s, process_except(st, "UNPACK", "RuntimeError", NLinks(blob, ino)))
                /\ ino' = ino
           ELSE \E i \in AllocChoices :
                  /\ ino' = [ino EXCEPT ![i] = [nlink |-> 1, content |-> gunzip(c),
                                               mtime |-> clock]]
                  /\ SetStage(s, Return([st EXCEPT !.file = i,
                                                   !.content = gunzip(c)],
                                        "UNPACK", NLinks(blob, ino)))
        /\ UNCHANGED <<clock, cache, blob, blobdirs, routeVars, extractVars, otherVars>>

\* A buggy variant of calc.file_checksum: the cache is looked up by the
\* modification time alone, whichever file the entry was made for
file_checksum_by_mtime(tab, f, ch) ==
    LET key   == <<f, tab[f].mtime>>
        known == {g \in Inodes : ch[<<g, tab[f].mtime>>] # <<>>}
    IN  IF ch[key] # <<>> THEN ch
        ELSE IF known # {}
        THEN [ch EXCEPT ![key] = ch[<<CHOOSE g \in known : TRUE, tab[f].mtime>>]]
        ELSE [ch EXCEPT ![key] = Digest(tab[f].content)]

\* calc.file_checksum on an existing file: the cache entry of the file's
\* inode and modification time is returned; it is filled from the file's
\* content when it is missing
file_checksum(tab, f, ch) ==
    LET key == <<f, tab[f].mtime>>
    IN  IF ch[key] = <<>> THEN [ch EXCEPT ![key] = Digest(tab[f].content)] ELSE ch

\* File._inspect: os.stat fails when nothing was saved at file_path
Inspect(s) ==
    LET st  == Enter(stage[s], "INSPECT")
        f   == st.file
        key == <<f, ino[f].mtime>>
    IN  /\ stage[s].pc = "INSPECT"
        /\ \/ /\ f = 0
              /\ SetStage(s, process_except(st, "INSPECT", "FileNotFoundError", NLinks(blob, ino)))
              /\ cache' = cache
           \/ /\ f # 0
              /\ cache' = file_checksum(ino, f, cache)
              /\ SetStage(s, Return([st EXCEPT !.checksum = cache'[key],
                                               !.mime = Mime(ino[f].content)],
                                    "INSPECT", NLinks(blob, ino)))
        /\ UNCHANGED <<clock, ino, blob, blobdirs, routeVars, extractVars, otherVars>>

\* File._store up to the os.link call: get_destination, check_exists, and
\* either the os.stat of the existing blob or ensure_writeable
StoreCheck(s) ==
    LET st == Enter(stage[s], "STORE")
        d  == Destination(st.checksum)
    IN  /\ stage[s].pc = "STORE"
        /\ IF d.status # "ok"
           THEN /\ SetStage(s, process_except(st, "STORE", d.status, NLinks(blob, ino)))
                /\ UNCHANGED <<ino, blobdirs>>
           ELSE IF blob[d.path] # 0
           THEN /\ ino' = store_existing(ino, blob[d.path])
                /\ SetStage(s, Return([st EXCEPT !.archive_path = d.path, !.sawBlob = TRUE],
                                      "STORE", NLinks(blob, ino')))
                /\ UNCHANGED blobdirs
           ELSE /\ blobdirs' = blobdirs \cup {dirname(d.path)}
                /\ SetStage(s, [st EXCEPT !.pc = "STORE_LINK"])
                /\ UNCHANGED ino
        /\ UNCHANGED <<clock, cache, blob, routeVars, extractVars, otherVars>>

\* File._store, os.link(file_path, bpath): FileExistsError when another
\* stage has created bpath since check_exists
StoreLink(s) ==
    LET st == stage[s]
        d  == Destination(st.checksum)
    IN  /\ st.pc = "STORE_LINK"
        /\ \/ /\ blob[d.path] # 0
              /\ SetStage(s, process_except(st, "STORE", "FileExistsError", NLinks(blob, ino)))
              /\ UNCHANGED <<ino, blob>>
           \/ /\ blob[d.path] = 0
              /\ ino' = store_link(ino, st.file)
              /\ blob' = [blob EXCEPT ![d.path] = st.file]
              /\ SetStage(s, Return([st EXCEPT !.archive_path = d.path],
                                    "STORE", NLinks(blob', ino')))
        /\ UNCHANGED <<clock, cache, blobdirs, routeVars, extractVars, otherVars>>

\* File._cleanup, os.remove(file_path)
CleanupRemove(s) ==
    LET st == Enter(stage[s], "CLEANUP")
    IN  /\ stage[s].pc = "CLEANUP"
        /\ ino' = remove_link(ino, st.file)
        /\ SetStage(s, [st EXCEPT !.pc = "CLEANUP_RMDIR", !.file = 0])
        /\ UNCHANGED <<clock, cache, blob, blobdirs, routeVars, extractVars, otherVars>>

\* File._cleanup, os.rmdir(staging_path): OSError when the directory holds
\* anything else
CleanupRmdir(s) ==
    LET st == stage[s]
    IN  /\ st.pc = "CLEANUP_RMDIR"
        /\ IF rmdir_raises(st)
           THEN SetStage(s, process_except(st, "CLEANUP", "OSError", NLinks(blob, ino)))
           ELSE SetStage(s, Return([st EXCEPT !.dir = rmdir(st.dir)], "CLEANUP",
                                   NLinks(blob, ino)))
        /\ UNCHANGED <<clock, ino, cache, blob, blobdirs, routeVars, extractVars, otherVars>>

\* Something else is written into a staging directory.  A stage meets it
\* only in os.rmdir, so it is drawn when _cleanup is next.
Intrude(s) ==
    /\ stage[s].pc = "CLEANUP" /\ ~stage[s].stray
    /\ SetStage(s, [stage[s] EXCEPT !.stray = TRUE])
    /\ UNCHANGED <<clock, ino, cache, blob, blobdirs, routeVars, extractVars, otherVars>>

\* The timestamp clock of the file system advances
Tick ==
    /\ clock < MaxClock
    /\ clock' = clock + 1
    /\ UNCHANGED <<ino, cache, blob, blobdirs, stage, routeVars, extractVars, otherVars>>

Next ==
    \/ Tick
    \/ \E s \in Stages :
         \/ Construct(s)
         \/ SaveUpload(s)
         \/ Setup(s)
         \/ Unpackage(s)
         \/ Inspect(s)
         \/ StoreCheck(s)
         \/ StoreLink(s)
         \/ CleanupRemove(s)
         \/ CleanupRmdir(s)
         \/ Intrude(s)

Spec == Init /\ [][Next]_vars

(***************************************************************************)
(* SpecRerun: process() is called again on a stage that has returned       *)
(***************************************************************************)

\* The stage objects of a run in which process() is called a second time
MaxRerunStages == 2

\* LogStream: close() has run, self.log and self.stream are None.  The
\* finally clause of process() closes the log of the stage.
LogClosed(st) == st.result # "none"

\* A buggy variant of LogStream.__getattr__: a closed log is not noticed
LogStream_getattr_unguarded(closed) == "ok"

\* LogStream.__getattr__ (self.log.info(...)) on a log that may be closed
LogStream_getattr(closed) == IF closed THEN "RuntimeError" ELSE "ok"

\* LogStream.close(): self.stream.getvalue() with self.stream None
LogStream_close(closed) == IF closed THEN "AttributeError" ELSE "ok"

\* The steps of a second call
AgainPcs == {"AGAIN_UNPACK", "AGAIN_INSPECT"}

\* _Stage.process called again, a step raised e: the except clause keeps e,
\* then the finally clause calls self.log.close(), whose exception leaves
\* process()
process_again_except(st, e) ==
    [st EXCEPT !.pc = "RAISED", !.error = e,
               !.result = LogStream_close(LogClosed(st))]

\* process() is called on a stage that has returned: _sequence starts, and
\* _setup returns
ProcessAgain(s) ==
    /\ Finished(stage[s])
    /\ SetStage(s, [Enter(stage[s], "SETUP") EXCEPT !.pc = "AGAIN_UNPACK"])
    /\ UNCHANGED <<clock, ino, cache, blob, blobdirs, routeVars, extractVars, otherVars>>

\* _unpackage of the second call.  CompFile decompresses local_source
\* again: open(file_path, 'wb') rewrites the staged file or creates it.
UnpackageAgain(s) ==
    LET st == Enter(stage[s], "UNPACK")
        c  == ino[blob[st.local_source]].content
        new == [nlink |-> 1, content |-> gunzip(c), mtime |-> clock]
    IN  /\ stage[s].pc = "AGAIN_UNPACK"
        /\ IF st.kind = "File"
           THEN /\ SetStage(s, [st EXCEPT !.pc = "AGAIN_INSPECT"])
                /\ ino' = ino
           ELSE IF Mime(c) \notin CompFile_SUPPORTED_MIMETYPES
           THEN /\ SetStage(s, process_again_except(st, "RuntimeError"))
                /\ ino' = ino
           ELSE IF st.file # 0
           THEN /\ ino' = [ino EXCEPT ![st.file] = [new EXCEPT !.nlink = ino[st.file].nlink]]
                /\ SetStage(s, [st EXCEPT !.pc = "AGAIN_INSPECT"])
           ELSE \E i \in AllocChoices :
                  /\ ino' = [ino EXCEPT ![i] = new]
                  /\ SetStage(s, [st EXCEPT !.pc = "AGAIN_INSPECT", !.file = i])
        /\ UNCHANGED <<clock, cache, blob, blobdirs, routeVars, extractVars, otherVars>>

\* File._inspect of the second call: os.stat fails when file_path is gone;
\* otherwise checksum and mime are taken again and self.log.info raises
InspectAgain(s) ==
    LET st  == Enter(stage[s], "INSPECT")
        f   == st.file
        key == <<f, ino[f].mtime>>
    IN  /\ stage[s].pc = "AGAIN_INSPECT"
        /\ IF f = 0
           THEN /\ SetStage(s, process_again_except(st, "FileNotFoundError"))
                /\ cache' = cache
           ELSE /\ cache' = file_checksum(ino, f, cache)
                /\ SetStage(s, process_again_except(
                                   [st EXCEPT !.checksum = cache'[key],
                                              !.mime = Mime(ino[f].content)],
                                   LogStream_getattr(LogClosed(st))))
        /\ UNCHANGED <<clock, ino, blob, blobdirs, routeVars, extractVars, otherVars>>

NextRerun ==
    \/ Tick
    \/ \E s \in 1..MaxRerunStages :
         \/ Construct(s)
         \/ SaveUpload(s)
         \/ Setup(s)
         \/ Unpackage(s)
         \/ Inspect(s)
         \/ StoreCheck(s)
         \/ StoreLink(s)
         \/ CleanupRemove(s)
         \/ CleanupRmdir(s)
         \/ Intrude(s)
         \/ ProcessAgain(s)
         \/ UnpackageAgain(s)
         \/ InspectAgain(s)

SpecRerun == Init /\ [][NextRerun]_vars

(***************************************************************************)
(* SpecUpload: actions                                                     *)
(***************************************************************************)

InitUpload == IdleRoute /\ IdleExtract /\ IdleBucket /\ IdleOther

\* No call of Upload.process is running
Callable == {"ready", "returned", "raised"}

\* An exception leaves Upload.process
upload_raise(u, e, m) == [u EXCEPT !.pc = "raised", !.raised = e, !.msg = m]

\* Upload(filename, request_headers): the File stage is constructed
UploadInit ==
    /\ up.pc = "none"
    /\ \E h, r \in BOOLEAN :
         up' = [NoUpload EXCEPT !.pc = "ready", !.headers = h, !.replicates = r,
                                !.objs.file_obj = NewObj("File"),
                                !.trace = <<[cls |-> "File", ok |-> "none"]>>]
    /\ UNCHANGED <<resp, exceptUpload>>

\* Upload.process is called: the guard on file_obj.archive_path, then
\* self.log.info("Processing upload ...")
UploadProcess ==
    LET u == [up EXCEPT !.calls = @ + 1, !.made0 = Len(up.trace), !.runs0 = up.runs,
                        !.raised = "none",
                        !.msg = "none", !.lresult = "None", !.cur = "file_obj"]
    IN  /\ up.pc \in Callable
        /\ up.calls < MaxUploadCalls
        /\ up' = IF u.objs.file_obj.archive_path
                 THEN upload_raise(u, "RuntimeError", "Upload has already been processed")
                 ELSE IF LogStream_getattr(u.logClosed) # "ok"
                 THEN upload_raise(u, LogStream_getattr(u.logClosed),
                                   "Log has already been closed")
                 ELSE [u EXCEPT !.pc = "file"]
        /\ resp' = NoResp
        /\ UNCHANGED exceptUpload

\* The pc after obj.process() has returned
AfterRun(pc) ==
    CASE pc = "file"          -> "comp"
      [] pc = "comp_run"      -> "archive"
      [] pc = "archive_run"   -> "replicate"
      [] pc = "replicate_run" -> "close"

\* result = obj.process(): any step of the stage that can raise may raise.
\* A stage whose log is closed has been processed before (see SpecRerun).
RunStage ==
    LET obj == up.objs[up.cur] IN
    /\ up.pc \in {"file", "comp_run", "archive_run", "replicate_run"}
    /\ IF LogStream_close(obj.logClosed) # "ok"
       THEN up' = upload_raise(up, LogStream_close(obj.logClosed), "NoneType")
       ELSE \E failAt \in {"none"} \cup CanFail(obj.cls) : \E mime \in Mimes :
              LET done == stage_process(obj, failAt, mime) IN
              up' = [up EXCEPT !.objs[up.cur] = done,
                               !.lresult = done.ok,
                               !.runs = @ + 1,
                               !.trace[Len(up.trace)].ok = done.ok,
                               !.pc = AfterRun(up.pc)]
    /\ UNCHANGED <<resp, exceptUpload>>

\* "if result and <cond>: obj = self.<name> = <cls>(...)".  The constructor
\* raises FileExistsError when its token names an existing staging directory
\* (collide); nothing in Upload.process catches it.
ChainStage(at, cls, name, cond, run, skip) ==
    /\ up.pc = at
    /\ IF chain_gate(up.lresult, cond)
       THEN \E collide \in BOOLEAN :
              up' = IF collide
                    THEN upload_raise([up EXCEPT !.trace = Append(@, [cls |-> cls, ok |-> "raised"])],
                                      "FileExistsError", "File exists")
                    ELSE [up EXCEPT !.objs[name] =
                                        [NewObj(cls) EXCEPT
                                            !.src = <<up.cur, get_absolute_path(up.objs[up.cur])>>],
                                    !.cur = name,
                                    !.trace = Append(@, [cls |-> cls, ok |-> "none"]),
                                    !.pc = run]
       ELSE up' = [up EXCEPT !.pc = skip]
    /\ UNCHANGED <<resp, exceptUpload>>

\* if result and obj.mime in CompFile.SUPPORTED_MIMETYPES
ChainCompFile ==
    ChainStage("comp", "CompFile", "compfile_obj",
               up.objs[up.cur].mime \in CompFile_SUPPORTED_MIMETYPES,
               "comp_run", "archive")

\* if result and obj.mime in Archive.SUPPORTED_MIMETYPES
ChainArchive ==
    ChainStage("archive", "Archive", "archive_obj",
               up.objs[up.cur].mime \in Archive_SUPPORTED_MIMETYPES,
               "archive_run", "replicate")

\* if result and self.headers and len(config.REPLICATES)
ChainReplicate ==
    ChainStage("replicate", "Replicate", "replicate_obj",
               up.headers /\ up.replicates,
               "replicate_run", "close")

\* self.result = result; self.log.close(); return result
UploadReturn ==
    /\ up.pc = "close"
    /\ up' = IF LogStream_close(up.logClosed) # "ok"
             THEN upload_raise([up EXCEPT !.result = IF up.lresult = "true" THEN "True" ELSE "False"],
                               LogStream_close(up.logClosed), "NoneType")
             ELSE [up EXCEPT !.result = IF up.lresult = "true" THEN "True" ELSE "False",
                             !.logClosed = TRUE, !.pc = "returned"]
    /\ UNCHANGED <<resp, exceptUpload>>

\* Upload.get_api_response() is called
GetApiResponse ==
    /\ up.pc \in Callable
    /\ ~resp.called
    /\ resp' = get_api_response(up)
    /\ UNCHANGED <<up, exceptUpload>>

NextUpload ==
    \/ UploadInit
    \/ UploadProcess
    \/ RunStage
    \/ ChainCompFile
    \/ ChainArchive
    \/ ChainReplicate
    \/ UploadReturn
    \/ GetApiResponse

SpecUpload == InitUpload /\ [][NextUpload]_vars

(***************************************************************************)
(* SpecFingerprint: calc.file_checksum called on files that are written    *)
(* between the calls                                                       *)
(***************************************************************************)

exceptCache == <<routeVars, extractVars, uploadVars, stagingVars, laterVars>>

InitFingerprint == IdleRoute /\ IdleExtract /\ IdleBucket /\ IdleOther

\* A file is created or rewritten; its modification time is the time of the
\* write or a time set with os.utime (a restored or extracted file)
WriteFile(f) ==
    /\ \E c \in Contents : \E t \in Times :
         /\ [content |-> c, mtime |-> t] # [content |-> ino[f].content, mtime |-> ino[f].mtime]
         /\ ino' = [ino EXCEPT ![f] = [nlink |-> 1, content |-> c, mtime |-> t]]
    /\ calls' = [calls EXCEPT ![f].dirty = TRUE]
    /\ UNCHANGED <<clock, cache, blob, blobdirs, stage, fcc, worker, exceptCache>>

\* calc.file_checksum(path) on an existing file, by one caller
Fingerprint(f) ==
    LET key == <<f, ino[f].mtime>> IN
    /\ ino[f].nlink > 0
    /\ cache' = file_checksum(ino, f, cache)
    /\ calls' = [calls EXCEPT ![f] =
                    [ n |-> IF calls[f].n = 0 THEN 1 ELSE 2,
                      mtime |-> ino[f].mtime,
                      content |-> ino[f].content,
                      value |-> cache'[key],
                      read |-> cache[key] = <<>>,
                      prevMtime |-> calls[f].mtime,
                      prevValue |-> calls[f].value,
                      clean |-> ~calls[f].dirty,
                      dirty |-> FALSE ]]
    /\ UNCHANGED <<clock, ino, blob, blobdirs, stage, fcc, worker, exceptCache>>

NextFingerprint == \E f \in Files : WriteFile(f) \/ Fingerprint(f)

SpecFingerprint == InitFingerprint /\ [][NextFingerprint]_vars

(***************************************************************************)
(* SpecCacheRace: threads run the statements of calc.file_checksum on the  *)
(* one module-level dict, which no lock protects                           *)
(***************************************************************************)

\* The times one thread reads a file in file_checksum
MaxWorkerCalls == 2

InitCacheRace ==
    /\ IdleRoute /\ IdleExtract /\ IdleUpload /\ IdleStaging /\ IdleCache /\ IdleLater
    /\ clock = 0 /\ blob = [p \in BlobPaths |-> 0] /\ blobdirs = {}
    /\ cache = [k \in Inodes \X Times |-> <<>>]
    /\ stage = [s \in Stages |-> NoStage]
    /\ \E cs \in [Files -> Contents] :
         ino = [i \in Inodes |-> IF i \in Files
                                 THEN [nlink |-> 1, content |-> cs[i], mtime |-> 0]
                                 ELSE FreeInode]

SetWorker(w, rec) == worker' = [worker EXCEPT ![w] = rec]

exceptRace == <<bucketVars, calls, exceptCache>>

\* A dict lookup failed: KeyError leaves file_checksum
key_error(wk) == [wk EXCEPT !.pc = "raised", !.error = "KeyError"]

\* file_checksum(path) is called: os.stat, file_identifier
CallChecksum(w, f) ==
    /\ worker[w].pc = "idle"
    /\ worker[w].reads < MaxWorkerCalls
    /\ SetWorker(w, [worker[w] EXCEPT !.pc = "if_hashtype", !.f = f,
                                      !.modified = ino[f].mtime, !.result = <<>>])
    /\ UNCHANGED <<fcc, exceptRace>>

\* if hashtype not in cache:
IfHashtype(w) ==
    /\ worker[w].pc = "if_hashtype"
    /\ SetWorker(w, [worker[w] EXCEPT !.pc = IF fcc.has THEN "if_identifier"
                                             ELSE "set_hashtype"])
    /\ UNCHANGED <<fcc, exceptRace>>

\* cache[hashtype] = {}
SetHashtype(w) ==
    /\ worker[w].pc = "set_hashtype"
    /\ fcc' = [NoCache EXCEPT !.has = TRUE]
    /\ SetWorker(w, [worker[w] EXCEPT !.pc = "if_identifier"])
    /\ UNCHANGED exceptRace

\* if file_identifier not in cache[hashtype]:
IfIdentifier(w) ==
    /\ worker[w].pc = "if_identifier"
    /\ SetWorker(w, [worker[w] EXCEPT !.pc = IF fcc.ent[worker[w].f].has
                                             THEN "if_modified" ELSE "set_identifier"])
    /\ UNCHANGED <<fcc, exceptRace>>

\* cache[hashtype][file_identifier] = {}
SetIdentifier(w) ==
    /\ worker[w].pc = "set_identifier"
    /\ fcc' = [fcc EXCEPT !.ent[worker[w].f] = [NoEntry EXCEPT !.has = TRUE]]
    /\ SetWorker(w, [worker[w] EXCEPT !.pc = "if_modified"])
    /\ UNCHANGED exceptRace

\* if modified not in cache[hashtype][file_identifier]:
IfModified(w) ==
    LET wk == worker[w]
        e  == fcc.ent[wk.f]
    IN  /\ wk.pc = "if_modified"
        /\ SetWorker(w, IF ~e.has THEN key_error(wk)
                        ELSE [wk EXCEPT !.pc = IF e.sum[wk.modified] = <<>>
                                               THEN "read" ELSE "return"])
        /\ UNCHANGED <<fcc, exceptRace>>

\* _file_checksum(path, hashtype, block_size), the right-hand side
ReadFile(w) ==
    /\ worker[w].pc = "read"
    /\ SetWorker(w, [worker[w] EXCEPT !.pc = "store",
                                      !.digest = Digest(ino[worker[w].f].content),
                                      !.reads = @ + 1])
    /\ UNCHANGED <<fcc, exceptRace>>

\* cache[hashtype][file_identifier][modified] = <the digest>
StoreChecksum(w) ==
    LET wk == worker[w]
    IN  /\ wk.pc = "store"
        /\ IF fcc.ent[wk.f].has
           THEN /\ fcc' = [fcc EXCEPT !.ent[wk.f].sum[wk.modified] = wk.digest]
                /\ SetWorker(w, [wk EXCEPT !.pc = "return"])
           ELSE /\ fcc' = fcc
                /\ SetWorker(w, key_error(wk))
        /\ UNCHANGED exceptRace

\* return cache[hashtype][file_identifier][modified]
ReturnChecksum(w) ==
    LET wk == worker[w]
        e  == fcc.ent[wk.f]
    IN  /\ wk.pc = "return"
        /\ SetWorker(w, IF ~e.has \/ e.sum[wk.modified] = <<>> THEN key_error(wk)
                        ELSE [wk EXCEPT !.pc = "idle", !.result = e.sum[wk.modified]])
        /\ UNCHANGED <<fcc, exceptRace>>

NextCacheRace ==
    \E w \in Workers :
        \/ \E f \in Files : CallChecksum(w, f)
        \/ IfHashtype(w)
        \/ SetHashtype(w)
        \/ IfIdentifier(w)
        \/ SetIdentifier(w)
        \/ IfModified(w)
        \/ ReadFile(w)
        \/ StoreChecksum(w)
        \/ ReturnChecksum(w)

SpecCacheRace == InitCacheRace /\ [][NextCacheRace]_vars

(***************************************************************************)
(* SpecStaging: stages draw tokens for their staging directories           *)
(***************************************************************************)

\* The stage objects constructed in SpecStaging
MaxStagingStages == 3

StagingSlots == 1..MaxStagingStages

\* uuid.uuid4().hex[:4]: the tokens drawn in a run
Tokens == {"0a1b", "ffff"}

\* A path below STAGING_DIR that does not exist
NoDir == [exists |-> FALSE, entries |-> {}]

NoStagingObj == [uid |-> "none", pc |-> "ABSENT", found |-> NoDir, left |-> NoDir]

\* A buggy variant of os.makedirs(spath, mode=0o777): exist_ok=True
makedirs_exist_ok(dirs, k) ==
    [status |-> "ok",
     dirs |-> IF dirs[k].exists THEN dirs ELSE [dirs EXCEPT ![k] = [exists |-> TRUE, entries |-> {}]]]

\* os.makedirs(spath, mode=0o777) of _Stage.__init__, spath = STAGING_DIR/uid
makedirs(dirs, k) ==
    IF dirs[k].exists
    THEN [status |-> "FileExistsError", dirs |-> dirs]
    ELSE [status |-> "ok", dirs |-> [dirs EXCEPT ![k] = [exists |-> TRUE, entries |-> {}]]]

exceptStaging == <<routeVars, extractVars, bucketVars, uploadVars, cacheVars, laterVars>>

InitStaging ==
    /\ IdleRoute /\ IdleExtract /\ IdleBucket /\ IdleUpload /\ IdleCache /\ IdleLater
    /\ sdir = [k \in Tokens |-> NoDir]
    /\ sobj = [s \in StagingSlots |-> NoStagingObj]

\* _Action.__init__ draws the token, _Stage.__init__ makes the directory;
\* when makedirs raises, the constructor raises and there is no stage
ConstructStage(s) ==
    /\ sobj[s].pc = "ABSENT"
    /\ \A t \in StagingSlots : t < s => sobj[t].pc # "ABSENT"
    /\ \E k \in Tokens :
         LET r == makedirs(sdir, k) IN
         /\ sdir' = r.dirs
         /\ sobj' = [sobj EXCEPT ![s] =
                        [ uid |-> k,
                          pc |-> IF r.status = "ok" THEN "ACTIVE" ELSE "RAISED",
                          found |-> sdir[k], left |-> r.dirs[k] ]]
    /\ UNCHANGED exceptStaging

\* Content is written into the staging directory of an active stage (the
\* upload is saved, an archive is extracted)
StageContent(s) ==
    /\ sobj[s].pc = "ACTIVE"
    /\ s \notin sdir[sobj[s].uid].entries
    /\ sdir' = [sdir EXCEPT ![sobj[s].uid].entries = @ \cup {s}]
    /\ UNCHANGED <<sobj, exceptStaging>>

\* process() returns True: _cleanup has removed the staging directory
FinishDone(s) ==
    /\ sobj[s].pc = "ACTIVE"
    /\ sdir' = [sdir EXCEPT ![sobj[s].uid] = NoDir]
    /\ sobj' = [sobj EXCEPT ![s].pc = "DONE"]
    /\ UNCHANGED exceptStaging

\* process() returns False: the staging directory is retained
FinishFailed(s) ==
    /\ sobj[s].pc = "ACTIVE"
    /\ sobj' = [sobj EXCEPT ![s].pc = "FAILED"]
    /\ UNCHANGED <<sdir, exceptStaging>>

NextStaging ==
    \E s \in StagingSlots :
        \/ ConstructStage(s)
        \/ StageContent(s)
        \/ FinishDone(s)
        \/ FinishFailed(s)

SpecStaging == InitStaging /\ [][NextStaging]_vars

(***************************************************************************)
(* SpecArchive: Archive stages over the BlobStore, the DirStore, the       *)
(* staging area and the checksum cache (bucket.py, calc.py)                *)
(***************************************************************************)

\* The Archive stage objects constructed in a run
MaxArchiveStages == 3

\* The Archive stages between construction and the return of process() at
\* one time
MaxArchiveActive == 2

ArchiveSlots == 1..MaxArchiveStages

\* config.CONSTANT.BUCKET.EXPLODE_DIR and STAGING_DIR, shortened like BLOB_DIR
EXPLODE_DIR == <<"/", "t", "/", "e">>
STAGING_DIR == <<"/", "t", "/", "s">>

\* config.ARCHIVE_DIR, shortened
ARCHIVE_DIR == <<"/", "t">>

\* The files handed to the stages: four archives and T0, a plain text
ArchiveNames == {"T0", "T1", "T2", "T3", "T4"}

\* magic.from_file(self.local_source, mime=True)
ArchiveMime(a) == IF a = "T0" THEN "text/plain" ELSE "application/x-tar"

\* The regular files unpackage.tar / unpackage.zip writes for an archive,
\* in the order of its members; the modification time is the one recorded
\* in the member's header
ArchiveMembers(a) ==
    CASE a = "T0" -> << >>
      [] a = "T1" -> << [name |-> <<"a">>, content |-> "X", mtime |-> 0] >>
      [] a = "T2" -> << [name |-> <<"a">>, content |-> "Zx", mtime |-> 0] >>
      [] a = "T3" -> << [name |-> <<"a">>, content |-> "X", mtime |-> 0],
                        [name |-> <<"d", "/", "b">>, content |-> "Zx", mtime |-> 0] >>
      [] a = "T4" -> << [name |-> <<"a">>, content |-> "X", mtime |-> 0],
                        [name |-> <<"d", "/", "s", "/", "c">>, content |-> "Zx", mtime |-> 0] >>

\* calc.file_checksum of the archive file itself
ArchiveDigest(a) ==
    CASE a = "T0" -> <<"0", "0", "0", "0", "0", "0", "0", "0">>
      [] a = "T1" -> <<"0", "0", "0", "0", "0", "0", "0", "1">>
      [] a = "T2" -> <<"0", "0", "0", "0", "0", "0", "0", "2">>
      [] a = "T3" -> <<"0", "0", "0", "0", "0", "0", "0", "3">>
      [] a = "T4" -> <<"0", "0", "0", "0", "0", "0", "0", "4">>

\* _Action.__init__: self.uid, one token per stage object
StageUid(s) == << <<"1", "2", "3", "4">>[s] >>

\* _Stage.__init__: spath = os.path.join(self.STAGING_DIR, self.uid)
staging_path(s) == join(STAGING_DIR, StageUid(s))

\* _Store.get_destination(checksum), for Dirstore
Dirstore_get_destination(sum) ==
    joinAll(EXPLODE_DIR, get_route([isStr |-> TRUE, chars |-> sum]).segs)

\* p lies below the directory d
Below(p, d) == StartsWith(p, d \o <<"/">>)

\* The paths of a file system [dirs, files]
PathsOf(fs) == fs.dirs \cup {f[1] : f \in fs.files}

\* os.listdir(d)
listdir(fs, d) == {p \in PathsOf(fs) : dirname(p) = d /\ p # d}

\* The directories on the way to p, p included
RECURSIVE Ancestors(_)
Ancestors(p) ==
    IF p = <<>> \/ p = <<"/">> THEN {}
    ELSE {p} \cup Ancestors(dirname(p))

\* os.makedirs(p, mode=0o777, exist_ok=True)
makedirs_path(fs, p) == [fs EXCEPT !.dirs = @ \cup Ancestors(p)]

\* Dirstore.check_exists: os.path.exists(dst) and len(os.listdir(dst))
Dirstore_check_exists(fs, sum) ==
    LET d == Dirstore_get_destination(sum)
    IN  d \in fs.dirs /\ listdir(fs, d) # {}

\* The inodes the file system may give a new file, for a given inode table
\* and cache (as AllocChoices)
Alloc(tab, ch) ==
    LET free  == {i \in Inodes : tab[i].nlink = 0}
        known == {i \in free : \E t \in Times : ch[<<i, t>>] # <<>>}
        fresh == free \ known
    IN  known \cup {i \in fresh : \A j \in fresh : i <= j}

\* TarFile.extractall / ZipFile.extractall into base: every outcome
\* [tab, fs], one per choice of inodes
RECURSIVE extractall(_, _, _, _, _)
extractall(members, base, tab, fs, ch) ==
    IF members = <<>> THEN {[tab |-> tab, fs |-> fs]}
    ELSE LET m    == Head(members)
             path == join(base, m.name)
         IN  UNION { extractall(Tail(members), base,
                        [tab EXCEPT ![i] = [nlink |-> 1, content |-> m.content, mtime |-> m.mtime]],
                        [dirs  |-> fs.dirs \cup Ancestors(dirname(path)),
                         files |-> fs.files \cup {<<path, i>>}],
                        ch) : i \in Alloc(tab, ch) }

\* The order of os.walk, top-down: shorter paths first
RECURSIVE WalkOrder(_)
WalkOrder(S) ==
    IF S = {} THEN <<>>
    ELSE LET x == CHOOSE y \in S : \A z \in S : Len(y[1]) <= Len(z[1])
         IN  <<x>> \o WalkOrder(S \ {x})

\* The loop of calc.file_checksums_in_directory over the files found:
\* [ch, result], result the dict as a sequence of [rel, sum]
RECURSIVE checksum_files(_, _, _, _, _)
checksum_files(files, path, tab, ch, acc) ==
    IF files = <<>> THEN [ch |-> ch, result |-> acc]
    ELSE LET f   == Head(files)
             ch1 == file_checksum(tab, f[2], ch)
             rel == Slice(f[1], Len(path), Len(f[1]))
         IN  checksum_files(Tail(files), path, tab, ch1,
                            Append(acc, [rel |-> rel, sum |-> ch1[<<f[2], tab[f[2]].mtime>>]]))

\* calc.file_checksums_in_directory(self.staging_path, ...) on a tree of regular
\* files and directories
file_checksums_in_staging(fs, dir, tab, ch) ==
    LET path == dir \o <<"/">>
        found == WalkOrder({f \in fs.files : StartsWith(f[1], path)})
    IN  checksum_files(found, path, tab, ch, <<>>)

\* Archive._store, the first loop: dir_path.replace(self.staging_path, "", 1)
rel_dir_path(dir_path, spath) == Slice(dir_path, Len(spath), Len(dir_path))

\* os.path.basename
basename(p) ==
    LET d == dirname(p)
    IN  IF d = <<>> THEN p
        ELSE IF EndsWithChar(d, "/") THEN Slice(p, Len(d), Len(p))
        ELSE Slice(p, Len(d) + 1, Len(p))

\* Archive._store, the first loop: dpath of a directory of the staging tree,
\* os.path.join(apath, rel_dir_path, item)
store_dpath(apath, d, spath) ==
    joinAll(apath, <<rel_dir_path(dirname(d), spath), basename(d)>>)

\* Archive._store, the second loop, over self.file_checksums.items():
\* [status, tab, b, fs, links]; what was linked before an os.link raised
\* stays linked
RECURSIVE store_files(_, _, _, _, _, _, _)
store_files(items, spath, arch, tab, b, fs, links) ==
    IF items = <<>> THEN [status |-> "ok", tab |-> tab, b |-> b, fs |-> fs, links |-> links]
    ELSE LET it       == Head(items)
             abs_path == join(spath, it.rel)
             apath    == join(arch, it.rel)
             bpath    == Destination(it.sum).path
             f        == (CHOOSE x \in fs.files : x[1] = abs_path)[2]
             had      == b[bpath] # 0
             tab1     == IF had THEN store_existing(tab, b[bpath]) ELSE store_link(tab, f)
             b1       == IF had THEN b ELSE [b EXCEPT ![bpath] = f]
             links1   == IF had THEN links ELSE links + 1
         IN  IF dirname(apath) \notin fs.dirs
             THEN [status |-> "FileNotFoundError", tab |-> tab1, b |-> b1, fs |-> fs, links |-> links1]
             ELSE IF apath \in PathsOf(fs)
             THEN [status |-> "FileExistsError", tab |-> tab1, b |-> b1, fs |-> fs, links |-> links1]
             ELSE store_files(Tail(items), spath, arch,
                              store_link(tab1, b1[bpath]), b1,
                              [fs EXCEPT !.files = @ \cup {<<apath, b1[bpath]>>}],
                              links1 + 1)

\* shutil.rmtree(staging_path): every link below it is removed
RECURSIVE unlink_all(_, _)
unlink_all(tab, files) ==
    IF files = {} THEN tab
    ELSE LET f == CHOOSE x \in files : TRUE
         IN  unlink_all(remove_link(tab, f[2]), files \ {f})

rmtree(fs, d) ==
    [dirs  |-> {p \in fs.dirs : p # d /\ ~Below(p, d)},
     files |-> {f \in fs.files : ~Below(f[1], d)}]

NoArchiveStage ==
    [ pc |-> "ABSENT",          \* the step the stage is at
      local_source |-> "none",  \* the archive file
      short_circuit |-> FALSE,  \* self.short_circuit
      checksum |-> <<>>,        \* self.checksum (<<>>: None)
      archive_path |-> <<>>,    \* self.archive_path (<<>>: None)
      inspected |-> FALSE,      \* self.file_checksums is a dict
      file_checksums |-> <<>>,  \* self.file_checksums, [rel, sum] in order
      error |-> "",             \* self.error ("": None)
      result |-> "none",        \* what process() returned
      steps |-> <<>>,           \* history: the steps of _sequence entered
      failedAt |-> "none",      \* history: the step that raised
      unpacked |-> FALSE,       \* history: extractall was called
      links |-> 0,              \* history: the os.link calls that succeeded
      made |-> {},              \* history: the directories _store created
      found |-> FALSE,          \* history: _setup met entries below the destination
      fresh |-> TRUE ]          \* history: every checksum of _inspect was read from the file

\* A buggy variant: the steps do not look at short_circuit
short_circuited_ignored(st) == FALSE

\* The short-circuit test at the head of _unpackage, _inspect and _store
short_circuited(st) == st.short_circuit

AReturn(st, step) ==
    LET n == sequence_next(step)
    IN  [st EXCEPT !.pc = n, !.result = IF n = "DONE" THEN "true" ELSE @]

AExcept(st, step, e) ==
    [st EXCEPT !.pc = "FAILED", !.error = e, !.result = "false", !.failedAt = step]

exceptArchive ==
    <<routeVars, extractVars, uploadVars, cacheVars, stagingVars, replicaVars, walkVars,
      nameVars, clock, stage>>

InitArchive ==
    /\ IdleRoute /\ IdleExtract /\ IdleBucket /\ IdleUpload /\ IdleCache /\ IdleStaging
    /\ IdleReplica /\ IdleWalk /\ IdleName
    /\ afs = [dirs |-> Ancestors(STAGING_DIR) \cup Ancestors(EXPLODE_DIR), files |-> {}]
    /\ astage = [s \in ArchiveSlots |-> NoArchiveStage]

SetArchiveStage(s, st) == astage' = [astage EXCEPT ![s] = st]

\* Archive(local_file): the staging directory is made
ArchiveConstruct(s) ==
    /\ astage[s].pc = "ABSENT"
    /\ \A t \in ArchiveSlots : t < s => astage[t].pc # "ABSENT"
    /\ Cardinality({t \in ArchiveSlots : Active(astage[t])}) < MaxArchiveActive
    /\ \E a \in ArchiveNames :
         SetArchiveStage(s, [NoArchiveStage EXCEPT !.pc = "NEW", !.local_source = a])
    /\ afs' = [afs EXCEPT !.dirs = @ \cup {staging_path(s)}]
    /\ UNCHANGED <<ino, cache, blob, blobdirs, exceptArchive>>

\* Archive._setup
ArchiveSetup(s) ==
    LET st  == Enter(astage[s], "SETUP")
        sum == ArchiveDigest(st.local_source)
    IN  /\ astage[s].pc = "NEW"
        /\ SetArchiveStage(s, AReturn([st EXCEPT
                                  !.checksum = sum,
                                  !.archive_path = Dirstore_get_destination(sum),
                                  !.short_circuit = Dirstore_check_exists(afs, sum),
                                  !.found = \E q \in PathsOf(afs) :
                                                Below(q, Dirstore_get_destination(sum))],
                              "SETUP"))
        /\ UNCHANGED <<afs, ino, cache, blob, blobdirs, exceptArchive>>

\* Archive._unpackage: unpackage.tar / unpackage.zip into the staging
\* directory
ArchiveUnpackage(s) ==
    LET st == Enter(astage[s], "UNPACK")
    IN  /\ astage[s].pc = "UNPACK"
        /\ IF short_circuited(st)
           THEN /\ SetArchiveStage(s, AReturn(st, "UNPACK"))
                /\ UNCHANGED <<afs, ino>>
           ELSE IF ArchiveMime(st.local_source) \notin Archive_SUPPORTED_MIMETYPES
           THEN /\ SetArchiveStage(s, AExcept(st, "UNPACK", "RuntimeError"))
                /\ UNCHANGED <<afs, ino>>
           ELSE \E out \in extractall(ArchiveMembers(st.local_source), staging_path(s),
                                      ino, afs, cache) :
                    /\ ino' = out.tab
                    /\ afs' = out.fs
                    /\ SetArchiveStage(s, AReturn([st EXCEPT !.unpacked = TRUE], "UNPACK"))
        /\ UNCHANGED <<cache, blob, blobdirs, exceptArchive>>

\* Archive._inspect
ArchiveInspect(s) ==
    LET st == Enter(astage[s], "INSPECT")
        r  == file_checksums_in_staging(afs, staging_path(s), ino, cache)
    IN  /\ astage[s].pc = "INSPECT"
        /\ IF short_circuited(st)
           THEN /\ SetArchiveStage(s, AReturn(st, "INSPECT"))
                /\ UNCHANGED cache
           ELSE /\ cache' = r.ch
                /\ SetArchiveStage(s, AReturn([st EXCEPT
                       !.inspected = TRUE,
                       !.file_checksums = r.result,
                       !.fresh = \A f \in afs.files :
                                    Below(f[1], staging_path(s)) =>
                                        cache[<<f[2], ino[f[2]].mtime>>] = <<>>],
                       "INSPECT"))
        /\ UNCHANGED <<afs, ino, blob, blobdirs, exceptArchive>>

\* Archive._store up to the end of the first loop, which makes the
\* directories of the archive below archive_path; a dpath outside
\* ARCHIVE_DIR is made when the process may write there, and raises
\* PermissionError when it may not.
ArchiveStore(s) ==
    LET st     == Enter(astage[s], "STORE")
        spath  == staging_path(s)
        sdirs  == {d \in afs.dirs : Below(d, spath)}
        inside == {d \in sdirs : Below(store_dpath(st.archive_path, d, spath), ARCHIVE_DIR)}
        first  == {d \in sdirs : \A e \in sdirs \ inside : Len(d) < Len(e)}
        fs0    == makedirs_path(afs, st.archive_path)
        mk(S)  == [fs0 EXCEPT !.dirs = @ \cup
                       UNION {Ancestors(store_dpath(st.archive_path, d, spath)) : d \in S}]
    IN  /\ astage[s].pc = "STORE"
        /\ IF short_circuited(st)
           THEN /\ SetArchiveStage(s, AReturn(st, "STORE"))
                /\ UNCHANGED afs
           ELSE \/ /\ sdirs # inside
                   /\ afs' = mk(first)
                   /\ SetArchiveStage(s, AExcept([st EXCEPT !.made = mk(first).dirs \ afs.dirs],
                                                 "STORE", "PermissionError"))
                \/ /\ afs' = mk(sdirs)
                   /\ SetArchiveStage(s, [st EXCEPT !.pc = "STORE_FILES",
                                                    !.made = mk(sdirs).dirs \ afs.dirs])
        /\ UNCHANGED <<ino, blob, blobdirs, cache, exceptArchive>>

\* Archive._store, the second loop: every file is linked into the BlobStore
\* and from there into the DirStore
ArchiveStoreFiles(s) ==
    LET st == astage[s]
        r  == store_files(st.file_checksums, staging_path(s), st.archive_path,
                          ino, blob, afs, 0)
        t  == [st EXCEPT !.links = r.links]
    IN  /\ astage[s].pc = "STORE_FILES"
        /\ ino' = r.tab
        /\ blob' = r.b
        /\ blobdirs' = blobdirs \cup
               {dirname(q) : q \in {q \in BlobPaths : blob[q] = 0 /\ r.b[q] # 0}}
        /\ afs' = r.fs
        /\ SetArchiveStage(s, IF r.status = "ok" THEN AReturn(t, "STORE")
                              ELSE AExcept(t, "STORE", r.status))
        /\ UNCHANGED <<cache, exceptArchive>>

\* Archive._cleanup: shutil.rmtree(self.staging_path)
ArchiveCleanup(s) ==
    LET st == Enter(astage[s], "CLEANUP")
        spath == staging_path(s)
    IN  /\ astage[s].pc = "CLEANUP"
        /\ ino' = unlink_all(ino, {f \in afs.files : Below(f[1], spath)})
        /\ afs' = rmtree(afs, spath)
        /\ SetArchiveStage(s, AReturn(st, "CLEANUP"))
        /\ UNCHANGED <<cache, blob, blobdirs, exceptArchive>>

NextArchive ==
    \E s \in ArchiveSlots :
        \/ ArchiveConstruct(s)
        \/ ArchiveSetup(s)
        \/ ArchiveUnpackage(s)
        \/ ArchiveInspect(s)
        \/ ArchiveStore(s)
        \/ ArchiveStoreFiles(s)
        \/ ArchiveCleanup(s)

SpecArchive == InitArchive /\ [][NextArchive]_vars

(***************************************************************************)
(* SpecReplica: Replicate stages over the ReplicaStore (bucket.py,         *)
(* util.secure_filename, config.REPLICATES)                                *)
(***************************************************************************)

\* The Replicate stage objects constructed in a run
MaxReplicaStages == 2

ReplicaSlots == 1..MaxReplicaStages

\* limit = 100 of _determine_replica_name
ReplicaLimit == 100

\* config.CONSTANT.BUCKET.REPLICA_DIR, shortened like BLOB_DIR
REPLICA_DIR == <<"/", "t", "/", "r">>

LowerLetters ==
    {"a", "b", "c", "d", "e", "f", "g", "h", "i", "j", "k", "l", "m",
     "n", "o", "p", "q", "r", "s", "t", "u", "v", "w", "x", "y", "z"}

UpperLetters ==
    {"A", "B", "C", "D", "E", "F", "G", "H", "I", "J", "K", "L", "M",
     "N", "O", "P", "Q", "R", "S", "T", "U", "V", "W", "X", "Y", "Z"}

\* The class [A-Za-z0-9_.-] of _filename_ascii_strip_re
FilenameChar(c) == c \in LowerLetters \cup UpperLetters \cup HexDigits \cup {"_", ".", "-"}

\* filename.split(): the words between runs of blanks
RECURSIVE SplitBlank(_, _)
SplitBlank(s, word) ==
    IF s = <<>> THEN (IF word = <<>> THEN <<>> ELSE <<word>>)
    ELSE IF Head(s) = " "
         THEN (IF word = <<>> THEN <<>> ELSE <<word>>) \o SplitBlank(Tail(s), <<>>)
         ELSE SplitBlank(Tail(s), Append(word, Head(s)))

\* "_".join(words)
RECURSIVE JoinUnderscore(_)
JoinUnderscore(words) ==
    IF words = <<>> THEN <<>>
    ELSE IF Len(words) = 1 THEN words[1]
    ELSE words[1] \o <<"_">> \o JoinUnderscore(Tail(words))

\* str.strip("._")
RECURSIVE StripDotUnderscore(_)
StripDotUnderscore(s) ==
    IF s = <<>> THEN s
    ELSE IF Head(s) \in {".", "_"} THEN StripDotUnderscore(Tail(s))
    ELSE IF s[Len(s)] \in {".", "_"} THEN StripDotUnderscore(SubSeq(s, 1, Len(s) - 1))
    ELSE s

\* util.secure_filename on an ASCII string (NFKD and the ascii encoding
\* leave it as it is; os.name is posix)
secure_filename(filename) ==
    LET blanked == [i \in 1..Len(filename) |-> IF filename[i] = "/" THEN " " ELSE filename[i]]
        joined  == JoinUnderscore(SplitBlank(blanked, <<>>))
    IN  StripDotUnderscore(SelectSeq(joined, FilenameChar))

\* An item of a replicate path of config.REPLICATES: a directory name, or
\* the token ${NAME} of a request header
DirItem(name) == [isDir |-> TRUE, text |-> name]
HeaderItem(name) == [isDir |-> FALSE, text |-> name]

\* The request headers named by the configuration
HeaderNames == {"P", "V"}

\* config.REPLICATES, from REPLICATE_0 = "r/${P}" and REPLICATE_1 = "${P}/${V}"
REPLICATES ==
    << <<DirItem(<<"R">>), HeaderItem("P")>>,
       <<HeaderItem("P"), HeaderItem("V")>> >>

\* The values a request gives the headers (<<>>: header not sent)
HeaderValues(h) ==
    IF h = "P" THEN {<<>>, <<"x">>, <<".", ".">>, <<"x", "/", "y">>}
    ELSE {<<>>, <<"x">>}

\* config.ReplicatePath.is_dir
is_dir(item) == item.isDir

\* config.ReplicatePath.get_header
get_header(item) == item.text

NoneSegment == [isNone |-> TRUE, chars |-> <<>>]

\* Replicate._inspect, the inner loop: what is appended to replica_path
replica_segment(item, headers) ==
    IF is_dir(item) THEN [isNone |-> FALSE, chars |-> item.text]
    ELSE LET client_value == headers[get_header(item)]
         IN  IF client_value = <<>> THEN NoneSegment
             ELSE [isNone |-> FALSE, chars |-> secure_filename(client_value)]

\* Replicate._inspect: replica_path of one replicate_config
replica_path(config, headers) ==
    [i \in 1..Len(config) |-> replica_segment(config[i], headers)]

\* Replicate._inspect: partial_match of one replicate_config
partial_match(config, headers) ==
    \E i \in 1..Len(config) : ~is_dir(config[i]) /\ headers[get_header(config[i])] # <<>>

\* A buggy variant of the test below: None in replica_path is not looked at
is_replica_match_partial(path, partial) == partial

\* Replicate._inspect: "if None in replica_path and partial_match ... elif
\* partial_match": the replica path is appended to replica_matches
is_replica_match(path, partial) ==
    partial /\ ~(\E i \in 1..Len(path) : path[i].isNone)

\* Replicate._inspect, the outer loop from replicate_config number i on
RECURSIVE inspect_from(_, _)
inspect_from(i, headers) ==
    IF i > Len(REPLICATES) THEN <<>>
    ELSE LET path == replica_path(REPLICATES[i], headers)
             rest == inspect_from(i + 1, headers)
         IN  IF is_replica_match(path, partial_match(REPLICATES[i], headers))
             THEN << [config |-> i, path |-> [j \in 1..Len(path) |-> path[j].chars]] >> \o rest
             ELSE rest

\* Replicastore.get_destination(replica_path): os.path.join(STORAGE_DIR,
\* *route), get_route returning the list as it is
Replicastore_get_destination(path) == joinAll(REPLICA_DIR, path)

\* The directory the kernel resolves a path to
DirOf(p) == normpath(p)

\* Every destination a request can lead to
ReplicaDirs ==
    LET hs == {h \in [HeaderNames -> UNION {HeaderValues(n) : n \in HeaderNames}] :
                   \A n \in HeaderNames : h[n] \in HeaderValues(n)}
        ends == UNION { {DirOf(Replicastore_get_destination(
                                [j \in 1..Len(REPLICATES[i]) |->
                                    replica_path(REPLICATES[i], h)[j].chars])) : h \in hs}
                        : i \in 1..Len(REPLICATES) }
    IN  UNION {Ancestors(d) : d \in ends} \ Ancestors(ARCHIVE_DIR)

\* A buggy variant of _determine_replica_name: the index of the first
\* replica is returned without a look at the directory
determine_replica_name_first(slots) == 0

\* _determine_replica_name, the loop "for i in range(0, limit)" from index i
\* on: the first index whose name os.path.exists does not find; -1 for the
\* EnvironmentError raised after the loop
RECURSIVE probe_from(_, _)
probe_from(i, slots) ==
    IF i >= ReplicaLimit THEN -1
    ELSE IF i \notin slots THEN i
    ELSE probe_from(i + 1, slots)

\* Replicate._determine_replica_name(dst_dir), slots the indices i whose
\* name.timestamp.i.extension exists in dst_dir
determine_replica_name(slots) == probe_from(0, slots)

\* A directory of the ReplicaStore: made (it exists), the indices taken
\* under the current timestamp, the index name.latest points at (-1: there
\* is no such link), and whether there ever was one
NoReplicaDir == [made |-> FALSE, slots |-> {}, latest |-> -1, hadLatest |-> FALSE]

\* What a directory may hold when a run begins
FilledDir(slots) ==
    [made |-> TRUE, slots |-> slots,
     latest |-> CHOOSE i \in slots : \A j \in slots : j <= i, hadLatest |-> TRUE]

InitialFills == {0..(ReplicaLimit - 1), 0..(ReplicaLimit - 2), {0, 1, 3}}

NoReplicaStage ==
    [ pc |-> "ABSENT",
      request_headers |-> <<>>,     \* self.request_headers
      replica_matches |-> <<>>,     \* self.replica_matches, with the config each came from
      replicas |-> <<>>,            \* self.replicas, [match, index]
      k |-> 0,                      \* the loop of _store: index into replica_matches
      replica_id |-> -1,            \* replica_id: the index chosen
      dir |-> FALSE,                \* the staging directory exists
      error |-> "",
      result |-> "none",
      failedAt |-> "none",
      probes |-> <<>> ]             \* history: [slots, pick] of each _determine_replica_name

exceptReplica ==
    <<routeVars, extractVars, bucketVars, uploadVars, cacheVars, stagingVars,
      archiveVars, walkVars, nameVars>>

InitReplica ==
    /\ IdleRoute /\ IdleExtract /\ IdleBucket /\ IdleUpload /\ IdleCache /\ IdleStaging
    /\ IdleArchive /\ IdleWalk /\ IdleName
    /\ rstage = [s \in ReplicaSlots |-> NoReplicaStage]
    /\ \/ rfs = [d \in ReplicaDirs |-> NoReplicaDir]
       \/ \E d \in {DirOf(Replicastore_get_destination(<< <<"R">>, <<"x">> >>))} :
          \E fill \in InitialFills :
              rfs = [e \in ReplicaDirs |->
                        IF e = d THEN FilledDir(fill)
                        ELSE IF e \in Ancestors(d) THEN [NoReplicaDir EXCEPT !.made = TRUE]
                        ELSE NoReplicaDir]

SetReplicaStage(s, st) == rstage' = [rstage EXCEPT ![s] = st]

RExcept(st, step, e) ==
    [st EXCEPT !.pc = "FAILED", !.error = e, !.result = "false", !.failedAt = step]

\* The destination directory of the match the loop of _store is at
dst_dir(st) == DirOf(Replicastore_get_destination(st.replica_matches[st.k].path))

\* Replicate(source, name, headers)
ReplicaConstruct(s) ==
    /\ rstage[s].pc = "ABSENT"
    /\ \A t \in ReplicaSlots : t < s => rstage[t].pc # "ABSENT"
    /\ \E p \in HeaderValues("P") : \E v \in HeaderValues("V") :
         SetReplicaStage(s, [NoReplicaStage EXCEPT
                                !.pc = "NEW", !.dir = TRUE,
                                !.request_headers = [n \in HeaderNames |-> IF n = "P" THEN p ELSE v]])
    /\ UNCHANGED <<rfs, exceptReplica>>

\* process(): _setup and _unpackage (nothing to do), then Replicate._inspect
\* and the head of Replicate._store
ReplicaInspect(s) ==
    LET st == rstage[s]
        ms == inspect_from(1, st.request_headers)
    IN  /\ st.pc = "NEW"
        /\ SetReplicaStage(s, [st EXCEPT !.replica_matches = ms,
                                         !.k = IF ms = <<>> THEN 0 ELSE 1,
                                         !.pc = IF ms = <<>> THEN "CLEANUP" ELSE "STORE_NAME"])
        /\ UNCHANGED <<rfs, exceptReplica>>

\* Replicate._store, one match: Replicastore.ensure_writeable and
\* _determine_replica_name
ReplicaStoreName(s) ==
    LET st   == rstage[s]
        d    == dst_dir(st)
        pick == determine_replica_name(rfs[d].slots)
        t    == [st EXCEPT !.probes = Append(@, [slots |-> rfs[d].slots, pick |-> pick])]
    IN  /\ st.pc = "STORE_NAME"
        /\ rfs' = [e \in ReplicaDirs |->
                      IF e \in Ancestors(d) THEN [rfs[e] EXCEPT !.made = TRUE] ELSE rfs[e]]
        /\ IF pick = -1
           THEN SetReplicaStage(s, RExcept(t, "STORE", "EnvironmentError"))
           ELSE SetReplicaStage(s, [t EXCEPT !.replica_id = pick, !.pc = "STORE_LINK"])
        /\ UNCHANGED exceptReplica

\* Replicate._store: os.link(self.local_source, replica_dst), or os.symlink
\* for a directory
ReplicaStoreLink(s) ==
    LET st == rstage[s]
        d  == dst_dir(st)
    IN  /\ st.pc = "STORE_LINK"
        /\ IF st.replica_id \in rfs[d].slots
           THEN /\ SetReplicaStage(s, RExcept(st, "STORE", "FileExistsError"))
                /\ UNCHANGED rfs
           ELSE /\ rfs' = [rfs EXCEPT ![d].slots = @ \cup {st.replica_id}]
                /\ SetReplicaStage(s, [st EXCEPT !.pc = "LATEST_EXISTS"])
        /\ UNCHANGED exceptReplica

\* Replicate._store: if os.path.exists(latest_link)
ReplicaLatestExists(s) ==
    LET st == rstage[s]
    IN  /\ st.pc = "LATEST_EXISTS"
        /\ SetReplicaStage(s, [st EXCEPT !.pc = IF rfs[dst_dir(st)].latest # -1
                                               THEN "LATEST_UNLINK" ELSE "LATEST_SYMLINK"])
        /\ UNCHANGED <<rfs, exceptReplica>>

\* Replicate._store: os.unlink(latest_link)
ReplicaLatestUnlink(s) ==
    LET st == rstage[s]
        d  == dst_dir(st)
    IN  /\ st.pc = "LATEST_UNLINK"
        /\ IF rfs[d].latest = -1
           THEN /\ SetReplicaStage(s, RExcept(st, "STORE", "FileNotFoundError"))
                /\ UNCHANGED rfs
           ELSE /\ rfs' = [rfs EXCEPT ![d].latest = -1]
                /\ SetReplicaStage(s, [st EXCEPT !.pc = "LATEST_SYMLINK"])
        /\ UNCHANGED exceptReplica

\* Replicate._store: os.symlink(replica_id, latest_link), and
\* self.replicas.append(replica_dst); then the next match
ReplicaLatestSymlink(s) ==
    LET st == rstage[s]
        d  == dst_dir(st)
    IN  /\ st.pc = "LATEST_SYMLINK"
        /\ IF rfs[d].latest # -1
           THEN /\ SetReplicaStage(s, RExcept(st, "STORE", "FileExistsError"))
                /\ UNCHANGED rfs
           ELSE /\ rfs' = [rfs EXCEPT ![d].latest = st.replica_id, ![d].hadLatest = TRUE]
                /\ SetReplicaStage(s, [st EXCEPT
                       !.replicas = Append(@, [match |-> st.k, index |-> st.replica_id]),
                       !.k = IF st.k < Len(st.replica_matches) THEN st.k + 1 ELSE st.k,
                       !.pc = IF st.k < Len(st.replica_matches) THEN "STORE_NAME" ELSE "CLEANUP"])
        /\ UNCHANGED exceptReplica

\* Replicate._cleanup: os.rmdir(self.staging_path); process() returns True
ReplicaCleanup(s) ==
    /\ rstage[s].pc = "CLEANUP"
    /\ SetReplicaStage(s, [rstage[s] EXCEPT !.pc = "DONE", !.result = "true",
                                            !.dir = rmdir(rstage[s].dir)])
    /\ UNCHANGED <<rfs, exceptReplica>>

NextReplica ==
    \E s \in ReplicaSlots :
        \/ ReplicaConstruct(s)
        \/ ReplicaInspect(s)
        \/ ReplicaStoreName(s)
        \/ ReplicaStoreLink(s)
        \/ ReplicaLatestExists(s)
        \/ ReplicaLatestUnlink(s)
        \/ ReplicaLatestSymlink(s)
        \/ ReplicaCleanup(s)

SpecReplica == InitReplica /\ [][NextReplica]_vars

(***************************************************************************)
(* SpecWalk: calc.file_checksums_in_directory on a directory tree that     *)
(* holds regular files, pipes, sockets, symbolic links and directories.    *)
(***************************************************************************)

\* The directory handed to file_checksums_in_directory
WalkRoot == <<"/", "w">>

\* The positions of the tree: two entries of the root, a subdirectory and
\* an entry of the subdirectory
WalkA == join(WalkRoot, <<"a">>)
WalkL == join(WalkRoot, <<"l">>)
WalkD == join(WalkRoot, <<"d">>)
WalkB == join(WalkD, <<"b">>)

WalkPaths == {WalkA, WalkL, WalkD, WalkB}

\* No entry at a position
NoWalkEntry == [kind |-> "none", content |-> "", target |-> <<>>]

\* The entries a position can be given: regular files, a pipe and a socket,
\* symbolic links to a file position and to the subdirectory, a directory
EntriesAt(p) ==
    LET regs  == {[kind |-> "reg", content |-> c, target |-> <<>>] : c \in Contents}
        spec  == {[kind |-> k, content |-> "", target |-> <<>>] : k \in {"fifo", "sock"}}
        links == {[kind |-> "lnk", content |-> "", target |-> t] : t \in {WalkA, WalkD}}
    IN  CASE p = WalkA -> regs \cup spec
          [] p = WalkL -> regs \cup links
          [] p = WalkD -> {[kind |-> "dir", content |-> "", target |-> <<>>]}
          [] p = WalkB -> regs \cup spec \cup links

\* os.stat(p).st_mode as a kind: symbolic links are followed, "none" when
\* the path or the link's target does not exist (FileNotFoundError)
stat_kind(tree, p) ==
    IF tree[p].kind = "lnk" THEN tree[tree[p].target].kind ELSE tree[p].kind

\* open(p, 'rb').read(): symbolic links are followed
read_content(tree, p) ==
    IF tree[p].kind = "lnk" THEN tree[tree[p].target].content ELSE tree[p].content

\* stat.S_ISREG(mode)
S_ISREG(kind) == kind = "reg"

\* str.rstrip(os.sep)
RECURSIVE rstrip_sep(_)
rstrip_sep(p) ==
    IF EndsWithChar(p, "/") THEN rstrip_sep(SubSeq(p, 1, Len(p) - 1)) ELSE p

\* os.walk(path), followlinks=False: the directories visited are the root
\* and the directories below it that are not symbolic links
walk_dirs(tree, root) ==
    {root} \cup {p \in WalkPaths : tree[p].kind = "dir" /\ Below(p, root)}

\* os.walk(path): the file_names of a visited directory are its entries for
\* which DirEntry.is_dir() is false; is_dir follows symbolic links and is
\* false for a dangling one
walk_file_names(tree, dir_path) ==
    {p \in WalkPaths :
        /\ tree[p].kind # "none"
        /\ dirname(p) = dir_path
        /\ stat_kind(tree, p) # "dir"}

\* calc.file_checksums_in_directory(path): [error, result], result the
\* dict as a set of <<rel_path, checksum>>
file_checksums_in_directory(tree, root) ==
    LET path  == rstrip_sep(root) \o <<"/">>
        names == UNION {walk_file_names(tree, d) : d \in walk_dirs(tree, root)}
        files == {p \in names : S_ISREG(stat_kind(tree, p))}
    IN  IF \E p \in names : stat_kind(tree, p) = "none"
        THEN [error |-> "FileNotFoundError", result |-> {}]
        ELSE [error |-> "",
              result |-> {<<Slice(p, Len(path), Len(p)), Digest(read_content(tree, p))>> :
                              p \in files}]

\* No call made yet
NoWalkResult == [called |-> FALSE, error |-> "", result |-> {}]

exceptWalk ==
    <<routeVars, extractVars, bucketVars, uploadVars, cacheVars, stagingVars,
      archiveVars, replicaVars, nameVars>>

InitWalk ==
    /\ IdleRoute /\ IdleExtract /\ IdleBucket /\ IdleUpload /\ IdleCache /\ IdleStaging
    /\ IdleArchive /\ IdleReplica /\ IdleName
    /\ wtree = [p \in WalkPaths |-> NoWalkEntry]
    /\ wres = NoWalkResult

\* An entry is created in the tree, below an existing directory
CreateEntry(p, e) ==
    /\ ~wres.called
    /\ wtree[p].kind = "none"
    /\ IF dirname(p) = WalkRoot THEN TRUE ELSE wtree[dirname(p)].kind = "dir"
    /\ wtree' = [wtree EXCEPT ![p] = e]
    /\ UNCHANGED <<wres, exceptWalk>>

\* file_checksums_in_directory(WalkRoot) is called; the checksum cache of the
\* process is empty and every file is read
WalkCall ==
    /\ ~wres.called
    /\ LET r == file_checksums_in_directory(wtree, WalkRoot)
       IN  wres' = [called |-> TRUE, error |-> r.error, result |-> r.result]
    /\ UNCHANGED <<wtree, exceptWalk>>

NextWalk ==
    \/ \E p \in WalkPaths : \E e \in EntriesAt(p) : CreateEntry(p, e)
    \/ WalkCall

SpecWalk == InitWalk /\ [][NextWalk]_vars

(***************************************************************************)
(* SpecUnpack: File and CompFile stages next to an Archive stage, over one *)
(* BlobStore, DirStore and checksum cache.                                 *)
(***************************************************************************)

\* The File and CompFile stages and the Archive stages of a run; all files
\* are written within one tick of the file system clock
MaxUnpackStages == 2
MaxUnpackArchives == 1

NextUnpack ==
    \/ \E s \in 1..MaxUnpackStages :
         \/ Construct(s)
         \/ SaveUpload(s)
         \/ Setup(s)
         \/ Unpackage(s)
         \/ Inspect(s)
         \/ StoreCheck(s)
         \/ StoreLink(s)
         \/ CleanupRemove(s)
         \/ CleanupRmdir(s)
    \/ \E s \in 1..MaxUnpackArchives :
         \/ ArchiveConstruct(s)
         \/ ArchiveSetup(s)
         \/ ArchiveUnpackage(s)
         \/ ArchiveInspect(s)
         \/ ArchiveStore(s)
         \/ ArchiveStoreFiles(s)
         \/ ArchiveCleanup(s)

SpecUnpack == InitArchive /\ [][NextUnpack]_vars

(***************************************************************************)
(* SpecSession: the stages of uploads processed one after the other, as    *)
(* Upload.process runs them: File, CompFile, Archive and Replicate stages  *)
(* over one file system.  A stage is constructed when the stage before it  *)
(* has returned.                                                           *)
(***************************************************************************)

\* The File and CompFile stages, the Archive stages and the Replicate stages
\* of a run
MaxSessionStages == 2
MaxSessionArchives == 1
MaxSessionReplicas == 1

\* No stage is between its construction and the return of process()
SessionQuiet ==
    /\ \A s \in Stages : ~Active(stage[s])
    /\ \A s \in ArchiveSlots : ~Active(astage[s])
    /\ \A s \in ReplicaSlots : ~Active(rstage[s])

InitSession ==
    /\ IdleRoute /\ IdleExtract /\ IdleBucket /\ IdleUpload /\ IdleCache /\ IdleStaging
    /\ IdleWalk /\ IdleName
    /\ afs = [dirs |-> Ancestors(STAGING_DIR) \cup Ancestors(EXPLODE_DIR), files |-> {}]
    /\ astage = [s \in ArchiveSlots |-> NoArchiveStage]
    /\ rstage = [s \in ReplicaSlots |-> NoReplicaStage]
    /\ rfs \in {[d \in ReplicaDirs |-> NoReplicaDir]}
              \cup {[e \in ReplicaDirs |->
                       IF e = d THEN FilledDir({0, 1, 3})
                       ELSE IF e \in Ancestors(d) THEN [NoReplicaDir EXCEPT !.made = TRUE]
                       ELSE NoReplicaDir] :
                    d \in {DirOf(Replicastore_get_destination(<< <<"R">>, <<"x">> >>))}}

NextSession ==
    \/ \E s \in 1..MaxSessionStages :
         \/ SessionQuiet /\ Construct(s)
         \/ SaveUpload(s)
         \/ Setup(s)
         \/ Unpackage(s)
         \/ Inspect(s)
         \/ StoreCheck(s)
         \/ StoreLink(s)
         \/ Intrude(s)
         \/ CleanupRemove(s)
         \/ CleanupRmdir(s)
    \/ \E s \in 1..MaxSessionArchives :
         \/ SessionQuiet /\ ArchiveConstruct(s)
         \/ ArchiveSetup(s)
         \/ ArchiveUnpackage(s)
         \/ ArchiveInspect(s)
         \/ ArchiveStore(s)
         \/ ArchiveStoreFiles(s)
         \/ ArchiveCleanup(s)
    \/ \E s \in 1..MaxSessionReplicas :
         \/ SessionQuiet /\ ReplicaConstruct(s)
         \/ ReplicaInspect(s)
         \/ ReplicaStoreName(s)
         \/ ReplicaStoreLink(s)
         \/ ReplicaLatestExists(s)
         \/ ReplicaLatestUnlink(s)
         \/ ReplicaLatestSymlink(s)
         \/ ReplicaCleanup(s)

SpecSession == InitSession /\ [][NextSession]_vars

(***************************************************************************)
(* SpecFilename: Upload(filename) / File(filename) on arbitrary filenames  *)
(***************************************************************************)

\* The characters the client builds the filename from
NameChars == {"a", ".", "/"}

\* The longest filename
MaxNameLen == 4

\* No File stage constructed yet
NoFilePath == [made |-> FALSE, staging_path |-> <<>>, file_path |-> <<>>]

\* File.__init__: fpath = os.path.join(self.staging_path, filename)
File_file_path(spath, filename) == join(spath, filename)

exceptName ==
    <<routeVars, extractVars, bucketVars, uploadVars, cacheVars, stagingVars,
      archiveVars, replicaVars, walkVars>>

InitFilename ==
    /\ IdleRoute /\ IdleExtract /\ IdleBucket /\ IdleUpload /\ IdleCache /\ IdleStaging
    /\ IdleArchive /\ IdleReplica /\ IdleWalk
    /\ fname = <<>>
    /\ fpath = NoFilePath

\* The client extends the filename of its request by one character
AppendNameChar ==
    /\ ~fpath.made
    /\ Len(fname) < MaxNameLen
    /\ \E c \in NameChars : fname' = Append(fname, c)
    /\ UNCHANGED <<fpath, exceptName>>

\* Upload(filename): self.file_obj = File(filename); the stage makes its
\* staging directory and reserves file_path, which get_upload_destination
\* returns
UploadFilename ==
    /\ ~fpath.made
    /\ \E s \in ArchiveSlots :
         fpath' = [made |-> TRUE, staging_path |-> staging_path(s),
                   file_path |-> File_file_path(staging_path(s), fname)]
    /\ UNCHANGED <<fname, exceptName>>

NextFilename == AppendNameChar \/ UploadFilename

SpecFilename == InitFilename /\ [][NextFilename]_vars

(***************************************************************************)
(* Claims about archive extraction                                         *)
(***************************************************************************)

\* Path p is directory d or lies below it, component by component
Inside(p, d) ==
    \/ p = d
    \/ StartsWith(p, IF EndsWithChar(d, "/") THEN d ELSE d \o <<"/">>)

Members == {archive.members[i] : i \in 1..Len(archive.members)}

\* The member's path, resolved against the destination directory, is not
\* contained in the destination directory
Escapes(m) == ~Inside(resolved(join(dst, m.name), cwd), resolved(dst, cwd))

\* The link's target, resolved relative to the directory that contains the
\* link entry, is not contained in the destination directory
LinkEscapes(m) ==
    /\ m.type \in {"sym", "lnk"}
    /\ ~Inside(resolved(join(join(dst, dirname(m.name)), m.linkname), cwd),
               resolved(dst, cwd))

\* Validation has let the whole archive pass
Accepted == xpc \in {"extract", "closed"}

\* C4: tar and zip extraction rejects every archive that has a member whose
\* path, resolved against the destination directory, is not contained in it,
\* for every destination and every working directory; after a rejection no
\* file outside the destination has been created.
C4_EscapingMemberRejected ==
    /\ Accepted => \A m \in Members : ~Escapes(m)
    /\ xpc = "rejected" => \A p \in written : Inside(p, dst)

\* C5: tar extraction rejects every archive that has a symbolic-link or
\* hard-link member whose target, resolved relative to the directory of the
\* link entry, lies outside the destination directory.
C5_EscapingLinkRejected ==
    (archive.kind = "tar" /\ Accepted) => \A m \in Members : ~LinkEscapes(m)

\* C6: no member is written to disk before every member of the archive has
\* passed validation; when validation turns a member down, at whatever
\* position, the destination holds exactly what it held before the call.
C6_ValidateAllBeforeExtract ==
    /\ written # {} => validated = 1..Len(archive.members)
    /\ \A i \in 1..Len(archive.members) :
           (xidx > i \/ xpc \in {"extract", "closed", "rejected"})
               /\ check_member(archive, i, cwd) # "ok"
               /\ (\A j \in 1..(i - 1) : check_member(archive, j, cwd) = "ok")
           => xpc = "rejected" /\ written = {}

\* C6 witness: the second member of an archive was turned down after the
\* first had passed, and nothing was written
C6_Witness ==
    /\ xpc = "rejected" /\ Len(archive.members) = 2
    /\ validated = {1} /\ written = {}

(***************************************************************************)
(* Claims about the route of a checksum                                    *)
(***************************************************************************)

\* A valid fingerprint: hexadecimal characters only, at least 8 of them
IsFingerprint(k) ==
    /\ k.isStr
    /\ Len(k.chars) >= 8
    /\ \A i \in 1..Len(k.chars) : k.chars[i] \in HexDigits \cup HexLower \cup HexUpper

\* The lower-case letter of an upper-case hexadecimal letter
HexFold ==
    [c \in HexUpper |->
        CASE c = "A" -> "a" [] c = "B" -> "b" [] c = "C" -> "c"
          [] c = "D" -> "d" [] c = "E" -> "e" [] c = "F" -> "f"]

\* C7: the route of a valid fingerprint f is [first two characters, next two
\* characters, whole fingerprint] of f lower-cased, and the destination is
\* the store's root followed by these three segments: nothing but f decides
\* it.
C7_RouteOfFingerprint ==
    (route.status # "none" /\ IsFingerprint(checksum)) =>
        LET f == checksum.chars
            r == route.segs
        IN  /\ route.status = "ok"
            /\ Len(r) = 3
            /\ Len(r[3]) = Len(f)
            /\ \A i \in 1..Len(f) :
                   r[3][i] = IF f[i] \in HexUpper THEN HexFold[f[i]] ELSE f[i]
            /\ r[1] = <<r[3][1], r[3][2]>>
            /\ r[2] = <<r[3][3], r[3][4]>>
            /\ route.path = BLOB_DIR \o <<"/">> \o r[1] \o <<"/">> \o r[2]
                                     \o <<"/">> \o r[3]

\* C7 witness: a route was derived from a fingerprint of 9 characters that
\* holds upper-case and lower-case letters and a digit
C7_Witness ==
    /\ route.status = "ok" /\ IsFingerprint(checksum)
    /\ Len(checksum.chars) = 9
    /\ \E i, j, k \in 1..4 :
           checksum.chars[i] = "F" /\ checksum.chars[j] = "a" /\ checksum.chars[k] = "3"

\* C8: route derivation fails with the invalid-argument error for every key
\* that is not a string of hexadecimal characters only, at least 8 of them:
\* no storage path is derived from a key holding another character.
C8_InvalidKeyRejected ==
    (route.status # "none" /\ ~IsFingerprint(checksum)) =>
        route.status = "TypeError" /\ route.path = <<>>

(***************************************************************************)
(* Claims about the stages (Spec)                                          *)
(***************************************************************************)

\* t was constructed after process() of s had returned
After(s, t) == s \in stage[t].pred

\* Two File stages that processed uploads of the same content to the end,
\* one after the other
SameUploadTwice(s, t) ==
    /\ After(s, t)
    /\ stage[s].kind = "File" /\ stage[t].kind = "File"
    /\ stage[s].pc = "DONE" /\ stage[t].pc = "DONE"
    /\ stage[s].content = stage[t].content

\* The files of the BlobStore that hold content c
BlobsOf(c) == {p \in BlobPaths : blob[p] # 0 /\ ino[blob[p]].content = c}

\* C1: two uploads of byte-identical content processed one after the other
\* give both File stages the same fingerprint and the same BlobStore
\* destination, and one file of the BlobStore, at that destination, holds
\* the content.
C1_SameContentSameBlob ==
    \A s, t \in Stages :
        SameUploadTwice(s, t) =>
            /\ stage[s].checksum = stage[t].checksum
            /\ stage[s].archive_path = stage[t].archive_path
            /\ BlobsOf(stage[t].content) = {stage[t].archive_path}

C3_RaceLoserSucceeds ==
    \A s \in Stages :
        (stage[s].failedAt = "STORE" /\ ~stage[s].sawBlob /\ stage[s].checksum # <<>>
            /\ blob[Destination(stage[s].checksum).path] # 0
            /\ blob[Destination(stage[s].checksum).path] # stage[s].file)
        => stage[s].pc # "FAILED"

SequenceOrder == <<"SETUP", "UNPACK", "INSPECT", "STORE", "CLEANUP">>

IsPrefix(a, b) == Len(a) <= Len(b) /\ \A i \in 1..Len(a) : a[i] = b[i]

\* C9: the steps a stage has entered are an initial part of SETUP, UNPACK,
\* INSPECT, STORE, CLEANUP (in order, each at most once); the step that
\* raised is the last one entered, the stage is then FAILED and process()
\* has returned false; process() has returned true only when all five steps
\* were entered and CLEANUP has removed the staging directory.
C9_StepsInOrder ==
    \A s \in Stages :
        /\ IsPrefix(stage[s].steps, SequenceOrder)
        /\ (stage[s].failedAt # "none") =>
               /\ stage[s].steps # <<>>
               /\ stage[s].steps[Len(stage[s].steps)] = stage[s].failedAt
               /\ stage[s].pc = "FAILED"
               /\ stage[s].result = "false"
        /\ (stage[s].pc = "FAILED") => stage[s].failedAt # "none"
        /\ (stage[s].result = "true") =>
               /\ stage[s].steps = SequenceOrder
               /\ stage[s].pc = "DONE"
               /\ ~stage[s].dir /\ stage[s].file = 0
        /\ (stage[s].pc = "DONE") => stage[s].result = "true"

\* C9 witness: one stage has failed in INSPECT, having entered SETUP, UNPACK
\* and INSPECT only, and another has returned true
C9_Witness ==
    \E s, t \in Stages :
        /\ stage[s].pc = "FAILED" /\ stage[s].steps = <<"SETUP", "UNPACK", "INSPECT">>
        /\ stage[t].result = "true"

\* C10: after a step of a stage has failed, the staging directory exists and
\* holds the content that was staged in it, and the error is captured.
C10_FailureRetainsStaging ==
    \A s \in Stages :
        stage[s].pc = "FAILED" =>
            /\ stage[s].dir
            /\ stage[s].error # ""
            /\ stage[s].content # "-" =>
                   /\ stage[s].file # 0
                   /\ ino[stage[s].file].content = stage[s].content

(***************************************************************************)
(* Claims about a second call of process() (SpecRerun)                     *)
(***************************************************************************)

\* C11: a second call of process() on a stage that has run, whether it
\* ended DONE or FAILED, fails with the already-processed error (the
\* RuntimeError of the closed log) and enters none of the steps again.
C11_SecondCallRejected ==
    \A s \in Stages :
        /\ stage[s].pc \notin AgainPcs
        /\ stage[s].pc = "RAISED" =>
               /\ stage[s].result = "RuntimeError"
               /\ IsPrefix(stage[s].steps, SequenceOrder)

(***************************************************************************)
(* Claims about the Upload action (SpecUpload)                             *)
(***************************************************************************)

\* C12: a second call of Upload.process() is left by the RuntimeError of an
\* object already used, whatever the first call did, and constructs and
\* runs no stage.
C12_SecondUploadCallRejected ==
    up.calls = 2 =>
        /\ up.pc = "raised"
        /\ up.raised = "RuntimeError"
        /\ Len(up.trace) = up.made0
        /\ up.runs = up.runs0

\* C12 witness: the second call was made after a first call whose File stage
\* failed before it stored its blob
C12_Witness ==
    /\ up.calls = 2 /\ up.pc = "raised"
    /\ up.objs.file_obj.ok = "false" /\ ~up.objs.file_obj.archive_path

\* C13: every stage Upload.process constructed before the last one returned
\* success: after a stage that failed, or a constructor that raised, no
\* stage is constructed or run.
C13_SuccessGatesNext ==
    \A i \in 1..(Len(up.trace) - 1) : up.trace[i].ok = "true"

\* C13 witness: the CompFile stage failed and process() returned without a
\* Replicate stage, although headers and server configuration ask for one
C13_Witness ==
    /\ up.pc = "returned" /\ up.headers /\ up.replicates
    /\ Len(up.trace) = 2
    /\ up.trace[2] = [cls |-> "CompFile", ok |-> "false"]

\* C14: process() returns True exactly when every stage it ran succeeded;
\* the response then has code 200 and status 'Success', and in every other
\* case get_api_response gives a response of code 500.
C14_ResponseCode ==
    /\ up.pc = "returned" =>
           (up.result = "True" <=> \A i \in 1..Len(up.trace) : up.trace[i].ok = "true")
    /\ resp.called =>
           /\ resp.raised = "none"
           /\ up.result = "True" => (resp.code = 200 /\ resp.status = "Success")
           /\ up.result # "True" => resp.code = 500

\* C15: the first call of Upload.process() is never left by an exception: a
\* stage that fails, its constructor included, makes process() return False.
C15_ProcessNeverRaises ==
    (up.calls = 1 /\ up.pc \in Callable \ {"ready"}) =>
        /\ up.pc = "returned"
        /\ (\E i \in 1..Len(up.trace) : up.trace[i].ok # "true") => up.result = "False"

\* C16: after process() returned False because a chained stage failed,
\* get_api_response returns a payload, which holds the checksum and the path
\* of every stage that succeeded.
C16_PartialResults ==
    (resp.called /\ up.pc = "returned" /\ up.result = "False" /\ Len(up.trace) >= 2) =>
        /\ resp.raised = "none"
        /\ \A i \in 1..3 :
               up.objs[ObjNames[i]].ok = "true" =>
                   resp.checksum[ObjNames[i]] /\ resp.path[ObjNames[i]]

(***************************************************************************)
(* Claims about calc.file_checksum (SpecFingerprint, SpecCacheRace)        *)
(***************************************************************************)

\* C17: a fingerprint call on a file whose modification time differs from
\* the one at the previous call on that file reads the file and returns the
\* digest of its current content.
C17_MtimeChangeForcesRead ==
    \A f \in Files :
        (calls[f].n = 2 /\ calls[f].mtime # calls[f].prevMtime) =>
            /\ calls[f].read
            /\ calls[f].value = Digest(calls[f].content)

\* C18: the second of two fingerprint calls on a file that was not written
\* between them returns what the first returned and does not read the file.
C18_UnchangedFileNotReread ==
    \A f \in Files :
        (calls[f].n = 2 /\ calls[f].clean) =>
            /\ calls[f].value = calls[f].prevValue
            /\ ~calls[f].read

\* C18 witness: a file has been fingerprinted twice with no write between
\* the calls, and written and fingerprinted before that
C18_Witness ==
    \E f \in Files :
        /\ calls[f].n = 2 /\ calls[f].clean /\ ~calls[f].dirty
        /\ calls[f].value = Digest(ino[f].content)

\* C19: no fingerprint call of concurrent threads fails, and each returns
\* the digest of its file's content.
C19_ConcurrentCallsSucceed ==
    \A w \in Workers :
        /\ worker[w].error = "none"
        /\ worker[w].result # <<>> => worker[w].result = Digest(ino[worker[w].f].content)

(***************************************************************************)
(* Claims about the staging directories (SpecStaging)                      *)
(***************************************************************************)

\* C20: no two stages that are active at the same time have the same
\* staging directory; a constructor whose token names an existing directory
\* raises and leaves that directory and its content as it found them.
C20_NoSharedStagingDir ==
    /\ \A s, t \in StagingSlots :
           (s # t /\ sobj[s].pc = "ACTIVE" /\ sobj[t].pc = "ACTIVE") =>
               sobj[s].uid # sobj[t].uid
    /\ \A s \in StagingSlots :
           /\ sobj[s].pc = "ACTIVE" => ~sobj[s].found.exists
           /\ sobj[s].found.exists =>
                  (sobj[s].pc = "RAISED" /\ sobj[s].left = sobj[s].found)

\* C20 witness: a constructor has raised on the token of an active stage
\* whose staging directory holds content
C20_Witness ==
    \E s, t \in StagingSlots :
        /\ sobj[s].pc = "RAISED" /\ sobj[t].pc = "ACTIVE"
        /\ sobj[s].uid = sobj[t].uid
        /\ sobj[s].found.entries # {}
        /\ sdir[sobj[t].uid].entries # {}

(***************************************************************************)
(* Claims about the Archive stage (SpecArchive)                            *)
(***************************************************************************)

\* The DirStore: what the file system holds below EXPLODE_DIR
DirStoreOf(fs) ==
    [dirs  |-> {q \in fs.dirs : Below(q, EXPLODE_DIR)},
     files |-> {f \in fs.files : Below(f[1], EXPLODE_DIR)}]

\* A step of stage s is taken
ArchiveStep(s) == astage'[s] # astage[s]

\* C21: when the DirStore holds a non-empty directory at the destination of
\* the archive's fingerprint, the Archive stage marks short_circuit in
\* SETUP; a short-circuited stage extracts nothing, fingerprints no file,
\* links nothing and creates no directory, none of its steps changes the
\* BlobStore or the DirStore, and it ends in success after CLEANUP has run
\* and removed its staging directory.
C21_ShortCircuitSkips ==
    /\ [](\A s \in ArchiveSlots :
            LET st == astage[s] IN
            /\ (st.found /\ st.pc \notin {"ABSENT", "NEW"}) => st.short_circuit
            /\ st.short_circuit =>
                 /\ ~st.unpacked /\ ~st.inspected /\ st.links = 0 /\ st.made = {}
                 /\ st.pc # "FAILED"
                 /\ st.pc \in {"UNPACK", "INSPECT", "STORE", "CLEANUP"} =>
                        listdir(afs, staging_path(s)) = {}
                 /\ st.pc = "DONE" =>
                        /\ st.result = "true"
                        /\ st.steps = <<"SETUP", "UNPACK", "INSPECT", "STORE", "CLEANUP">>
                        /\ staging_path(s) \notin afs.dirs)
    /\ [][\A s \in ArchiveSlots :
            (astage[s].short_circuit /\ ArchiveStep(s)) =>
                /\ blob' = blob /\ blobdirs' = blobdirs
                /\ DirStoreOf(afs') = DirStoreOf(afs)]_vars

\* C21 witness: a stage that met a non-empty DirStore directory has
\* short-circuited and finished
C21_Witness ==
    \E s \in ArchiveSlots :
        /\ astage[s].found /\ astage[s].short_circuit /\ astage[s].pc = "DONE"
        /\ listdir(afs, astage[s].archive_path) # {}

\* C22: after an Archive stage has succeeded without short-circuit, for
\* every regular file of the archive with relative path p and fingerprint f
\* the BlobStore holds a file at the destination of f and the DirStore holds
\* at (destination of the archive's fingerprint)/p a link to that blob.
C22_ArchiveMirrored ==
    \A s \in ArchiveSlots :
        (astage[s].pc = "DONE" /\ ~astage[s].short_circuit) =>
            LET ms == ArchiveMembers(astage[s].local_source)
                top == Dirstore_get_destination(ArchiveDigest(astage[s].local_source))
            IN  \A i \in 1..Len(ms) :
                    LET bpath == Destination(Digest(ms[i].content)).path
                    IN  /\ blob[bpath] # 0
                        /\ <<join(top, ms[i].name), blob[bpath]>> \in afs.files

(***************************************************************************)
(* Claims about the Replicate stage (SpecReplica)                          *)
(***************************************************************************)

\* The request headers give a value for every placeholder of the config
Covered(config, headers) ==
    \A i \in 1..Len(config) : ~config[i].isDir => headers[config[i].text] # <<>>

\* The configs of the matches a stage has recorded
MatchedConfigs(st) == {st.replica_matches[i].config : i \in 1..Len(st.replica_matches)}

Inspected(st) == st.pc \notin {"ABSENT", "NEW"}

\* C23: a Replicate stage whose request headers give a value for none or
\* only some of the placeholders of a template records no match for that
\* template; when no template is covered, the stage does not fail, none of
\* its steps changes the ReplicaStore, and it ends in success with zero
\* replicas.
C23_PartialHeadersSkipped ==
    /\ [](\A s \in ReplicaSlots :
            LET st == rstage[s]
                none == \A i \in 1..Len(REPLICATES) : ~Covered(REPLICATES[i], st.request_headers)
            IN  Inspected(st) =>
                  /\ \A i \in 1..Len(REPLICATES) :
                         ~Covered(REPLICATES[i], st.request_headers) => i \notin MatchedConfigs(st)
                  /\ none => /\ st.pc \in {"CLEANUP", "DONE"}
                             /\ st.replicas = <<>> /\ st.error = ""
                             /\ st.pc = "DONE" => st.result = "true")
    /\ [][\A s \in ReplicaSlots :
            (/\ rstage'[s] # rstage[s]
             /\ rstage[s].pc # "ABSENT"
             /\ \A i \in 1..Len(REPLICATES) : ~Covered(REPLICATES[i], rstage[s].request_headers))
                => rfs' = rfs]_vars

\* C23 witness: a stage whose headers cover one template in part and the
\* other not at all has finished in success with no replica
C23_Witness ==
    \E s \in ReplicaSlots :
        /\ rstage[s].pc = "DONE" /\ rstage[s].result = "true"
        /\ rstage[s].request_headers["V"] # <<>> /\ rstage[s].request_headers["P"] = <<>>
        /\ rstage[s].replicas = <<>> /\ rstage[s].replica_matches = <<>>

\* C24: every match recorded by _inspect has, for each placeholder of its
\* template, a path segment that is not empty and is a safe file name.
C24_MatchSegmentsSafe ==
    \A s \in ReplicaSlots :
        \A m \in 1..Len(rstage[s].replica_matches) :
            LET match == rstage[s].replica_matches[m]
                config == REPLICATES[match.config]
            IN  \A i \in 1..Len(config) :
                    ~config[i].isDir =>
                        /\ match.path[i] # <<>>
                        /\ \A j \in 1..Len(match.path[i]) : FilenameChar(match.path[i][j])
                        /\ match.path[i] \notin {<<".">>, <<".", ".">>}

\* C25: _determine_replica_name picks the smallest index in 0..99 whose
\* name does not exist in the destination directory, never an index whose
\* name exists, and raises the replica-limit error exactly when all 100
\* names exist.
C25_SmallestFreeIndex ==
    \A s \in ReplicaSlots :
        /\ \A n \in 1..Len(rstage[s].probes) :
               LET pr == rstage[s].probes[n]
               IN  /\ pr.pick = -1 <=> (0..(ReplicaLimit - 1)) \subseteq pr.slots
                   /\ pr.pick # -1 =>
                        /\ pr.pick \in 0..(ReplicaLimit - 1)
                        /\ pr.pick \notin pr.slots
                        /\ \A j \in 0..(pr.pick - 1) : j \in pr.slots
        /\ rstage[s].error = "EnvironmentError" <=>
               \E n \in 1..Len(rstage[s].probes) : rstage[s].probes[n].pick = -1

\* C25 witness: one stage was given the last free index of a directory, and
\* the next stage met the replica limit there
C25_Witness ==
    \E s, t \in ReplicaSlots :
        /\ \E n \in 1..Len(rstage[s].probes) : rstage[s].probes[n].pick = ReplicaLimit - 1
        /\ rstage[t].error = "EnvironmentError"

\* C26: when the destination directory of one matched template holds all
\* 100 slots, the replicas of the other matched templates are still
\* created.
C26_LimitTerminalForOneReplica ==
    \A s \in ReplicaSlots :
        (rstage[s].pc = "FAILED" /\ rstage[s].error = "EnvironmentError") =>
            \A m \in 1..Len(rstage[s].replica_matches) :
                m # rstage[s].k =>
                    \E n \in 1..Len(rstage[s].replicas) : rstage[s].replicas[n].match = m

\* C27: once a directory holds a 'latest' link, it holds one in every later
\* state, and no Replicate stage fails over the link.
C27_LatestReplacedAtomically ==
    /\ \A d \in ReplicaDirs : rfs[d].hadLatest => rfs[d].latest # -1
    /\ \A s \in ReplicaSlots :
           rstage[s].error \notin {"FileNotFoundError"}

(***************************************************************************)
(* Claims about the staging directory of File and CompFile stages (Spec)   *)
(***************************************************************************)

\* A step of _cleanup of stage s is taken
CleanupStep(s) ==
    stage[s].pc \in {"CLEANUP", "CLEANUP_RMDIR"} /\ stage'[s] # stage[s]

\* C28: _cleanup of a File or CompFile stage removes the staged file and the
\* empty staging directory and nothing else: its steps leave the BlobStore,
\* every other inode and every other stage as they are; a staging directory
\* that holds another entry stays on disk with that entry, and the stage
\* ends FAILED in CLEANUP.
C28_CleanupRemovesOnlyStagedFile ==
    /\ [](\A s \in Stages :
            stage[s].stray =>
                /\ stage[s].dir
                /\ Finished(stage[s]) =>
                       /\ stage[s].pc = "FAILED" /\ stage[s].failedAt = "CLEANUP"
                       /\ stage[s].result = "false")
    /\ [][\A s \in Stages :
            /\ stage[s].stray => (stage'[s].stray /\ stage'[s].dir)
            /\ CleanupStep(s) =>
                  /\ blob' = blob /\ blobdirs' = blobdirs
                  /\ \A i \in Inodes : i # stage[s].file => ino'[i] = ino[i]
                  /\ \A t \in Stages : t # s => stage'[t] = stage[t]]_vars

\* C28 witness: a stage whose staging directory held another entry has
\* failed in CLEANUP; the staged file is gone, the directory and the entry
\* are there
C28_Witness ==
    \E s \in Stages :
        /\ stage[s].stray /\ stage[s].dir /\ stage[s].file = 0
        /\ stage[s].pc = "FAILED" /\ stage[s].failedAt = "CLEANUP"

\* C30: between any two steps of a stage, no file of its staging directory
\* shares its inode with an entry of a permanent store.
C30_NoStoreLinkInStaging ==
    \A s \in Stages :
        (Active(stage[s]) /\ stage[s].dir /\ stage[s].file # 0) =>
            \A p \in BlobPaths : blob[p] # stage[s].file

(***************************************************************************)
(* Claims about the directory fingerprint (SpecWalk)                       *)
(***************************************************************************)

\* The regular files of the tree, symbolic links not followed
RegularFiles(tree) == {p \in WalkPaths : tree[p].kind = "reg"}

\* C29: the call never fails, and its map holds exactly one entry per
\* regular file below the root, keyed by the relative path; symbolic links
\* (dangling or not), pipes, sockets and directories give no entry.
C29_OnlyRegularFilesListed ==
    wres.called =>
        /\ wres.error = ""
        /\ wres.result =
              {<<Slice(p, Len(WalkRoot) + 1, Len(p)), Digest(wtree[p].content)>> :
                   p \in RegularFiles(wtree)}

(***************************************************************************)
(* Claims about Archive._store on nested and shared archives (SpecArchive) *)
(***************************************************************************)

\* The first loop of _store of the stage has run
StoreEntered(st) == \E i \in 1..Len(st.steps) : st.steps[i] = "STORE"

\* The DirStore destination of the archive of a stage
TopOf(st) == Dirstore_get_destination(ArchiveDigest(st.local_source))

\* C31: once the first loop of _store has run in a stage that did not
\* short-circuit, the DirStore destination holds a directory at the relative
\* path of the directory of every member of the archive, at any depth, and
\* the stage does not fail for a directory that is missing or that it
\* may not create.
C31_NestedDirectoriesMirrored ==
    \A s \in ArchiveSlots :
        (StoreEntered(astage[s]) /\ ~astage[s].short_circuit) =>
            LET ms == ArchiveMembers(astage[s].local_source)
            IN  /\ \A i \in 1..Len(ms) :
                       dirname(join(TopOf(astage[s]), ms[i].name)) \in afs.dirs
                /\ astage[s].error \notin {"FileNotFoundError", "PermissionError"}

\* C32: when a stage has short-circuited, the DirStore destination of its
\* archive holds a file at the relative path of every member of the archive.
C32_ShortCircuitMeansRetained ==
    \A s \in ArchiveSlots :
        astage[s].short_circuit =>
            LET ms == ArchiveMembers(astage[s].local_source)
            IN  \A i \in 1..Len(ms) :
                    \E f \in afs.files : f[1] = join(TopOf(astage[s]), ms[i].name)

\* C33: no Archive stage fails because a link destination was created by
\* another stage after its existence check.
C33_ExistingLinkIsSuccess ==
    \A s \in ArchiveSlots : astage[s].error # "FileExistsError"

\* C39: every directory an Archive stage creates in _store lies below the
\* DirStore root.
C39_StoreStaysInsideStoreRoots ==
    \A s \in ArchiveSlots :
        \A d \in astage[s].made : Below(d, EXPLODE_DIR)

(***************************************************************************)
(* Claims about unsupported content (SpecUnpack)                           *)
(***************************************************************************)

\* The step was entered by the stage
Entered(st, step) == \E i \in 1..Len(st.steps) : st.steps[i] = step

\* The mime types of single-file compression (gzip, xz, bzip2) and of
\* archives (tar, zip) the claims speak of
CompressionTypes ==
    {"application/gzip", "application/x-gzip", "application/x-xz", "application/x-bzip2"}
ArchiveTypes == {"application/x-tar", "application/zip"}

\* A CompFile stage whose source is not of a supported compression type
UnsupportedCompFile(st) ==
    /\ st.kind = "CompFile"
    /\ Mime(ino[blob[st.local_source]].content) \notin CompressionTypes

\* An Archive stage, not short-circuited, whose source is not of a supported
\* archive type
UnsupportedArchive(st) ==
    /\ st.pc # "ABSENT" /\ ~st.short_circuit
    /\ ArchiveMime(st.local_source) \notin ArchiveTypes

\* C34: a CompFile stage over a source of an unsupported mime type, and an
\* Archive stage that did not short-circuit over such a source, fail in
\* UNPACK with the RuntimeError of the mime test; nothing is decompressed
\* or extracted, and no step of such a stage changes the BlobStore, the
\* DirStore or the ReplicaStore.
C34_UnsupportedMimeFailsInUnpack ==
    /\ [](/\ \A s \in Stages :
                (UnsupportedCompFile(stage[s]) /\ Entered(stage[s], "UNPACK")) =>
                    /\ stage[s].pc = "FAILED" /\ stage[s].failedAt = "UNPACK"
                    /\ stage[s].error = "RuntimeError" /\ stage[s].result = "false"
                    /\ stage[s].file = 0
          /\ \A s \in ArchiveSlots :
                (UnsupportedArchive(astage[s]) /\ Entered(astage[s], "UNPACK")) =>
                    /\ astage[s].pc = "FAILED" /\ astage[s].failedAt = "UNPACK"
                    /\ astage[s].error = "RuntimeError" /\ astage[s].result = "false"
                    /\ ~astage[s].unpacked /\ astage[s].links = 0 /\ astage[s].made = {}
                    /\ listdir(afs, staging_path(s)) = {})
    /\ [][/\ \A s \in Stages :
                (UnsupportedCompFile(stage[s]) /\ stage'[s] # stage[s]) =>
                    /\ blob' = blob /\ blobdirs' = blobdirs /\ ino' = ino
                    /\ DirStoreOf(afs') = DirStoreOf(afs) /\ rfs' = rfs
          /\ \A s \in ArchiveSlots :
                (UnsupportedArchive(astage[s]) /\ ArchiveStep(s)) =>
                    /\ blob' = blob /\ blobdirs' = blobdirs /\ ino' = ino
                    /\ DirStoreOf(afs') = DirStoreOf(afs) /\ rfs' = rfs]_vars

\* C34 witness: a CompFile stage over a plain text and an Archive stage over
\* a plain text have both failed in UNPACK
C34_Witness ==
    /\ \E s \in Stages :
          /\ UnsupportedCompFile(stage[s])
          /\ stage[s].pc = "FAILED" /\ stage[s].failedAt = "UNPACK"
    /\ \E s \in ArchiveSlots :
          /\ UnsupportedArchive(astage[s])
          /\ astage[s].pc = "FAILED" /\ astage[s].failedAt = "UNPACK"

(***************************************************************************)
(* Claims about the chain of stages of an upload (SpecUpload)              *)
(***************************************************************************)

\* process() of the stage object was called
Ran(n) == up.objs[n].ok # "none"

\* The stage run last before the Archive stage is decided on
LastBeforeArchive == IF Ran("compfile_obj") THEN "compfile_obj" ELSE "file_obj"

\* C35: in a call of Upload.process() that has passed the decisions on the
\* chained stages, the CompFile stage was run exactly when the File stage
\* succeeded with a mime type of the compression set, the Archive stage was
\* run exactly when the stage run last before it succeeded with a mime type
\* of the archive set, and each of them was constructed on the retained
\* path (archive_path) of the stage before it.
C35_ChainFollowsMimeTypes ==
    (up.calls = 1 /\ up.pc \in {"replicate", "replicate_run", "close", "returned"}) =>
        LET f == up.objs["file_obj"]
            l == up.objs[LastBeforeArchive]
        IN  /\ Ran("compfile_obj") <=> (f.ok = "true" /\ f.mime \in CompressionTypes)
            /\ Ran("archive_obj") <=> (l.ok = "true" /\ l.mime \in ArchiveTypes)
            /\ Ran("compfile_obj") =>
                   up.objs["compfile_obj"].src = <<"file_obj", "archive_path">>
            /\ Ran("archive_obj") =>
                   up.objs["archive_obj"].src = <<LastBeforeArchive, "archive_path">>

\* C35 witness: an upload of a compressed archive has returned success after
\* the File, CompFile and Archive stages were run
C35_Witness ==
    /\ up.calls = 1 /\ up.pc = "returned" /\ up.result = "True"
    /\ Ran("compfile_obj") /\ Ran("archive_obj")
    /\ up.objs["file_obj"].mime = "application/gzip"
    /\ up.objs["compfile_obj"].mime = "application/x-tar"

(***************************************************************************)
(* Claims about the reserved path of an upload (SpecFilename)              *)
(***************************************************************************)

\* C40: for every filename the file_path reserved by the File stage of an
\* upload is a direct child of the stage's staging directory: its directory
\* is the staging directory and its last component is a name.
C40_ReservedPathInsideStaging ==
    fpath.made =>
        /\ dirname(fpath.file_path) = fpath.staging_path
        /\ basename(fpath.file_path) \notin {<<>>, <<".">>, <<".", ".">>}

(***************************************************************************)
(* Claims about links inside an archive (SpecExtract)                      *)
(***************************************************************************)

\* Validation has turned the archive down
Rejected == xpc = "rejected"

\* C37: tar validation accepts every archive all of whose member paths and
\* link targets resolve inside the destination directory; a link to another
\* entry outside the link's own directory but inside the destination, such
\* as d/a -> ../a, is not rejected.
C37_ContainedLinkAccepted ==
    (archive.kind = "tar" /\ Rejected) =>
        \E m \in Members : Escapes(m) \/ LinkEscapes(m)

(***************************************************************************)
(* Claims about the content of the BlobStore (SpecUnpack)                  *)
(***************************************************************************)

\* The paths of the BlobStore at which a file is present
Stored == {p \in BlobPaths : blob[p] # 0}

StagingDirsOnDisk ==
    {<<"stage", s>> : s \in {t \in Stages : stage[t].dir}}
        \cup {<<"archive", s>> : s \in {t \in ArchiveSlots : staging_path(t) \in afs.dirs}}
        \cup {<<"replicate", s>> : s \in {t \in ReplicaSlots : rstage[t].dir}}

\* Every stage that was constructed has returned success
AllSucceeded ==
    /\ \A s \in Stages : stage[s].pc \in {"ABSENT", "DONE"}
    /\ \A s \in ArchiveSlots : astage[s].pc \in {"ABSENT", "DONE"}
    /\ \A s \in ReplicaSlots : rstage[s].pc \in {"ABSENT", "DONE"}

\* C36: after process() of a stage returned success the staging directory
\* of the stage no longer exists, and after an upload all of whose stages
\* succeeded no staging directory of any of them remains on disk.
C36_SuccessRemovesStaging ==
    /\ \A s \in Stages : stage[s].pc = "DONE" => <<"stage", s>> \notin StagingDirsOnDisk
    /\ \A s \in ArchiveSlots :
           astage[s].pc = "DONE" =>
               /\ <<"archive", s>> \notin StagingDirsOnDisk
               /\ \A p \in PathsOf(afs) : ~Below(p, staging_path(s))
    /\ \A s \in ReplicaSlots : rstage[s].pc = "DONE" => <<"replicate", s>> \notin StagingDirsOnDisk
    /\ AllSucceeded => StagingDirsOnDisk = {}

\* C36 witness: a File stage, a CompFile stage, an Archive stage that
\* extracted an archive and a Replicate stage that made a replica have all
\* returned success
C36_Witness ==
    /\ AllSucceeded
    /\ \E s, t \in Stages :
           /\ stage[s].kind = "File" /\ stage[s].pc = "DONE"
           /\ stage[t].kind = "CompFile" /\ stage[t].pc = "DONE"
    /\ \E s \in ArchiveSlots : astage[s].pc = "DONE" /\ astage[s].inspected
    /\ \E s \in ReplicaSlots : rstage[s].pc = "DONE" /\ rstage[s].replicas # <<>>

====
